---- MODULE Spec2Model ----
(***************************************************************************)
(* A model of the BUBBLE backend's relationship ledger (services/friends)  *)
(* and message visibility engine (services/messages) over the Firestore    *)
(* collections friend_requests, friendships, messages and conversations.   *)
(***************************************************************************)
EXTENDS Integers, Sequences, FiniteSets, Bags, TLC

\* ------------------------------------------------------------------ bounds
\* Documents the friend_requests collection may hold.
MaxRequests == 2
\* Documents ever created in the messages collection.
MaxMessages == 2
\* Readings of datetime.utcnow() are drawn from 1..MaxTime.
MaxTime == 2
\* Length of the id list of a batch call (reveal, mark-as-read).
MaxBatch == 2
\* The largest page size asked of a message listing.
MaxLimit == 2
\* Handlers that may be stopped between two store accesses at one time.
MaxHandlers == 2
\* Special address change requests stored.
MaxAddressRequests == 1
\* Characters in a user id given to _get_conversation_id.
MaxUidLen == 3
\* Documents the location_history collection may hold before an update.
MaxHistory == 2

\* ------------------------------------------------------- program constants
\* TrustLevel.FRIEND
FRIEND == 2
\* The separator "_" of a conversation id, as its character code.
Separator == 95
\* settings.LOCATION_CHANGE_LOCK_DAYS
LOCATION_CHANGE_LOCK_DAYS == 90
\* settings.HOME_RADIUS_METERS, WORK_RADIUS_METERS, SCHOOL_RADIUS_METERS
HOME_RADIUS_METERS == 200
WORK_RADIUS_METERS == 500
SCHOOL_RADIUS_METERS == 500
\* custom_loc.get("radius_meters", 100)
DEFAULT_RADIUS_METERS == 100
\* The speed above which a fix is moving, 1.4 m/s, in tenths of a m/s.
MOVING_SPEED == 14
\* settings.LOCATION_HISTORY_RETENTION_DAYS
LOCATION_HISTORY_RETENTION_DAYS == 7

\* ---------------------------------------------------------------- universe
\* User ids are strings, modelled as sequences of character codes.
Alice == <<97>>
Bob == <<98>>
Ghost == <<120>>
\* The documents of the users collection (accounts are created by the
\* external identity boundary and never deleted by these services).
Users == {Alice, Bob}
\* Ids a caller may name; Ghost has no users document.
Uids == Users \cup {Ghost}
\* TrustLevel values an update may carry (a subset of the enum 1..5).
TrustChoices == {1, 2, 3}
Nicknames == {"n1"}
Contents == {"c1", "c2"}
None == "None"
Times == 1..MaxTime

VARIABLES
    friend_requests,  \* sequence of request documents; the id is the index
    friendships,      \* bag of friendship documents (directed edges)
    messages,         \* sequence of message documents or Deleted; id = index
    conversations,    \* function: conversation id -> conversation document
    last,             \* the most recent call and its response
    inflight,         \* bag of handlers stopped between two store accesses
    tally,            \* history: per <<conversation, user>>, messages sent to the
                      \* user and messages the user's completed calls marked read
    addresses,        \* function: uid -> the address fields of the user document
    address_change_requests,  \* sequence of special change request documents
    clock,            \* the time now, in ticks
    custom_locations, \* function: uid -> the custom_locations of the user document
    user_locations,   \* function: uid -> the user_locations document, if any
    location_history  \* bag of location_history documents

\* The variables of the address operations, and those of everything else.
address_vars == <<addresses, address_change_requests, clock>>
social_vars == <<friend_requests, friendships, messages, conversations, inflight, tally>>

\* The variables of the location service.
location_vars == <<custom_locations, user_locations, location_history>>

vars == <<friend_requests, friendships, messages, conversations, last, inflight, tally,
          addresses, address_change_requests, clock,
          custom_locations, user_locations, location_history>>

\* A user document with no address registered.
NoAddresses == [home_address |-> <<>>, work_address |-> <<>>, school_address |-> <<>>]

\* The most recent call (operation, caller, arguments) and what the caller gets
\* back: the outcome is "ok" or the reason
\* of the ValueError raised, the value is what a successful call returns.
Response(op, user, arg, outcome, value) ==
    [op |-> op, user |-> user, arg |-> arg, outcome |-> outcome, value |-> value]

\* --------------------------------------------------------------- the store
GetUserByUid(uid) ==
    IF uid \in Users THEN uid ELSE None

Max(a, b) == IF a >= b THEN a ELSE b

\* --------------------------------------------------------- friends service
\* A timestamp or nickname field is <<>> (null) or <<v>>.
Null == <<>>

\* The document _create_friendship writes; no caller passes a nickname.
Friendship(user_id, friend_id, trust_level) ==
    [user_id |-> user_id, friend_id |-> friend_id,
     trust_level |-> trust_level, nickname |-> Null, status |-> "active"]

\* get_friendship: the documents the call may return. The query has limit(1)
\* and no order, and document ids are random, so any matching document may be
\* the one returned; the empty set stands for the result None.
GetFriendship(user_id, friend_id) ==
    {e \in BagToSet(friendships) :
        e.user_id = user_id /\ e.friend_id = friend_id /\ e.status = "active"}

IsFriend(user_id, friend_id) ==
    GetFriendship(user_id, friend_id) # {}

\* get_trust_level: the values the call may return; empty for None.
GetTrustLevel(user_id, friend_id) ==
    {e.trust_level : e \in GetFriendship(user_id, friend_id)}

PendingRequests(from_user_id, to_user_id) ==
    {i \in 1..Len(friend_requests) :
        /\ friend_requests[i].from_user_id = from_user_id
        /\ friend_requests[i].to_user_id = to_user_id
        /\ friend_requests[i].status = "pending"}

SendRequestOutcome(from_user_id, to_user_id) ==
    IF from_user_id = to_user_id THEN "self_request"
    ELSE IF GetUserByUid(to_user_id) = None THEN "user_not_found"
    ELSE IF IsFriend(from_user_id, to_user_id) THEN "already_friend"
    ELSE IF PendingRequests(from_user_id, to_user_id) # {} THEN "already_requested"
    ELSE "ok"

NewRequest(from_user_id, to_user_id) ==
    [from_user_id |-> from_user_id, to_user_id |-> to_user_id, status |-> "pending"]

SendFriendRequest(from_user_id, to_user_id) ==
    LET outcome == SendRequestOutcome(from_user_id, to_user_id) IN
    /\ outcome = "ok" => Len(friend_requests) < MaxRequests
    /\ friend_requests' =
        IF outcome = "ok"
        THEN Append(friend_requests, NewRequest(from_user_id, to_user_id))
        ELSE friend_requests
    /\ last' = Response("send_friend_request", from_user_id, to_user_id, outcome,
                        IF outcome = "ok" THEN Len(friend_requests) + 1 ELSE None)
    /\ UNCHANGED <<friendships, messages, conversations, inflight, tally>>
    /\ UNCHANGED address_vars
    /\ UNCHANGED location_vars

\* The checks of a request without the one that it is still pending.
RespondOutcomeAnyStatus(user_id, request_id) ==
    IF request_id \notin 1..Len(friend_requests) THEN "request_not_found"
    ELSE IF friend_requests[request_id].to_user_id # user_id THEN "permission"
    ELSE "ok"

\* The checks accept_friend_request and reject_friend_request share.
RespondOutcome(user_id, request_id) ==
    IF request_id \notin 1..Len(friend_requests) THEN "request_not_found"
    ELSE IF friend_requests[request_id].to_user_id # user_id THEN "permission"
    ELSE IF friend_requests[request_id].status # "pending" THEN "already_processed"
    ELSE "ok"

CreateFriendship(store, user_id, friend_id, trust_level) ==
    store (+) SetToBag({Friendship(user_id, friend_id, trust_level)})

AcceptFriendRequest(user_id, request_id) ==
    LET outcome == RespondOutcome(user_id, request_id) IN
    /\ IF outcome = "ok"
       THEN LET r == friend_requests[request_id] IN
            /\ friend_requests' = [friend_requests EXCEPT ![request_id].status = "accepted"]
            /\ friendships' =
                CreateFriendship(
                    CreateFriendship(friendships, r.to_user_id, r.from_user_id, FRIEND),
                    r.from_user_id, r.to_user_id, FRIEND)
       ELSE UNCHANGED <<friend_requests, friendships>>
    /\ last' = Response("accept_friend_request", user_id, request_id, outcome, None)
    /\ UNCHANGED <<messages, conversations, inflight, tally>>
    /\ UNCHANGED address_vars
    /\ UNCHANGED location_vars

RejectFriendRequest(user_id, request_id) ==
    LET outcome == RespondOutcome(user_id, request_id) IN
    /\ friend_requests' =
        IF outcome = "ok"
        THEN [friend_requests EXCEPT ![request_id].status = "rejected"]
        ELSE friend_requests
    /\ last' = Response("reject_friend_request", user_id, request_id, outcome, None)
    /\ UNCHANGED <<friendships, messages, conversations, inflight, tally>>
    /\ UNCHANGED address_vars
    /\ UNCHANGED location_vars

\* One document of the friendships collection replaced by another.
Replace(store, old, new) ==
    (store (-) SetToBag({old})) (+) SetToBag({new})

\* update_friendship writing the default trust level when none is supplied.
UpdateFriendshipDefaulting(user_id, friend_id, trust_level, nickname) ==
    /\ IF GetFriendship(user_id, friend_id) = {}
       THEN /\ UNCHANGED friendships
            /\ last' = Response("update_friendship", user_id,
                                <<friend_id, trust_level, nickname>>,
                                "friendship_not_found", None)
       ELSE \E e \in GetFriendship(user_id, friend_id) :
            /\ friendships' =
                Replace(friendships, e,
                    [e EXCEPT
                        !.trust_level =
                            IF trust_level = {} THEN FRIEND
                            ELSE CHOOSE t \in trust_level : TRUE,
                        !.nickname =
                            IF nickname = {} THEN @
                            ELSE <<CHOOSE n \in nickname : TRUE>>])
            /\ last' = Response("update_friendship", user_id,
                                <<friend_id, trust_level, nickname>>, "ok", None)
    /\ UNCHANGED <<friend_requests, messages, conversations, inflight, tally>>
    /\ UNCHANGED address_vars
    /\ UNCHANGED location_vars

\* update_friendship; trust_level and nickname are {} when the field is not
\* supplied (or supplied as null, which exclude_none drops) and {v} when it is.
UpdateFriendship(user_id, friend_id, trust_level, nickname) ==
    /\ IF GetFriendship(user_id, friend_id) = {}
       THEN /\ UNCHANGED friendships
            /\ last' = Response("update_friendship", user_id,
                                <<friend_id, trust_level, nickname>>,
                                "friendship_not_found", None)
       ELSE \E e \in GetFriendship(user_id, friend_id) :
            /\ friendships' =
                Replace(friendships, e,
                    [e EXCEPT
                        !.trust_level =
                            IF trust_level = {} THEN @
                            ELSE CHOOSE t \in trust_level : TRUE,
                        !.nickname =
                            IF nickname = {} THEN @
                            ELSE <<CHOOSE n \in nickname : TRUE>>])
            /\ last' = Response("update_friendship", user_id,
                                <<friend_id, trust_level, nickname>>, "ok", None)
    /\ UNCHANGED <<friend_requests, messages, conversations, inflight, tally>>
    /\ UNCHANGED address_vars
    /\ UNCHANGED location_vars

\* The store after deleting one of the documents in found (none if empty).
DeleteOneOf(store, found) ==
    IF found = {} THEN {store}
    ELSE {store (-) SetToBag({e}) : e \in found}

RemoveFriend(user_id, friend_id) ==
    LET friendship1 == GetFriendship(user_id, friend_id)
        friendship2 == GetFriendship(friend_id, user_id)
    IN
    /\ \E s1 \in DeleteOneOf(friendships, friendship1) :
            friendships' \in DeleteOneOf(s1, friendship2)
    /\ last' = Response("remove_friend", user_id, friend_id,
                        IF friendship1 = {} /\ friendship2 = {}
                        THEN "friendship_not_found" ELSE "ok",
                        None)
    /\ UNCHANGED <<friend_requests, messages, conversations, inflight, tally>>
    /\ UNCHANGED address_vars
    /\ UNCHANGED location_vars

BlockUser(user_id, friend_id) ==
    /\ IF GetFriendship(user_id, friend_id) = {}
       THEN UNCHANGED friendships
       ELSE \E e \in GetFriendship(user_id, friend_id) :
                friendships' = Replace(friendships, e, [e EXCEPT !.status = "blocked"])
    /\ last' = Response("block_user", user_id, friend_id, "ok", None)
    /\ UNCHANGED <<friend_requests, messages, conversations, inflight, tally>>
    /\ UNCHANGED address_vars
    /\ UNCHANGED location_vars

\* -------------------------------------------------------- messages service
\* Lexicographic order of two strings, as Python's sorted() compares them.
RECURSIVE StrLeq(_, _)
StrLeq(x, y) ==
    IF x = <<>> THEN TRUE
    ELSE IF y = <<>> THEN FALSE
    ELSE IF Head(x) # Head(y) THEN Head(x) < Head(y)
    ELSE StrLeq(Tail(x), Tail(y))

GetConversationId(user_id1, user_id2) ==
    IF StrLeq(user_id1, user_id2)
    THEN user_id1 \o <<Separator>> \o user_id2
    ELSE user_id2 \o <<Separator>> \o user_id1

\* The user ids _get_conversation_id is applied to: the strings of up to
\* MaxUidLen characters over "a", "b" and the separator.
UidStrings == UNION {[1..n -> {97, 98, Separator}] : n \in 1..MaxUidLen}

\* A call of _get_conversation_id and the id it returns.
ConversationIdOf(user_id1, user_id2) ==
    /\ last' = Response("_get_conversation_id", user_id1, user_id2, "ok",
                        GetConversationId(user_id1, user_id2))
    /\ UNCHANGED social_vars
    /\ UNCHANGED address_vars
    /\ UNCHANGED location_vars

\* A message document. created_at is not stored: readings of the clock never
\* decrease, so ordering by created_at is the order of creation, which the
\* index of the document records.
NewMessage(sender_id, recipient_id, content) ==
    [conversation_id |-> GetConversationId(sender_id, recipient_id),
     sender_id |-> sender_id,
     recipient_id |-> recipient_id,
     content |-> content,
     is_visible_to_recipient |-> FALSE,
     is_read |-> FALSE,
     read_at |-> Null,
     revealed_at |-> Null]

\* What a hard-deleted document leaves at its index (ids are never reused).
Deleted == [deleted |-> TRUE]

Exists(msgs, message_id) ==
    message_id \in 1..Len(msgs) /\ msgs[message_id] # Deleted

\* dict.get(key, default) on a mapping.
Get(map, key, default) ==
    IF key \in DOMAIN map THEN map[key] ELSE default

\* map[key] = value on a mapping.
Put(map, key, value) ==
    [k \in DOMAIN map \cup {key} |-> IF k = key THEN value ELSE map[k]]

\* The timestamps the store holds. A reading of the clock is below none of
\* them, and below no reading a handler in progress has taken.
StampsOf(msgs, convs) ==
    UNION {{t \in Times : msgs[i].revealed_at = <<t>> \/ msgs[i].read_at = <<t>>} :
              i \in {j \in 1..Len(msgs) : msgs[j] # Deleted}}
        \cup {convs[c].last_message_at : c \in DOMAIN convs}

UtcNow ==
    {t \in Times :
        /\ \A u \in StampsOf(messages, conversations) : t >= u
        /\ \A p \in BagToSet(inflight) : "now" \in DOMAIN p => t >= p.now}

\* The history counters after sent more sends to, and marked more reads by,
\* the user in the conversation.
Tallied(counters, conversation_id, user_id, sent, marked) ==
    LET old == Get(counters, <<conversation_id, user_id>>, [sent |-> 0, marked |-> 0])
    IN Put(counters, <<conversation_id, user_id>>,
           [sent |-> old.sent + sent, marked |-> old.marked + marked])

\* The messages of a conversation that are read in the store after and were
\* unread in the store before.
NewlyRead(before, after, conversation_id) ==
    {i \in 1..Len(before) :
        /\ before[i] # Deleted /\ after[i] # Deleted
        /\ before[i].conversation_id = conversation_id
        /\ ~before[i].is_read /\ after[i].is_read}

\* _check_messaging_permission with <= for <: level 2 is turned away.
CheckMessagingPermissionAboveFriend(sender_id, recipient_id) ==
    IF GetTrustLevel(sender_id, recipient_id) = {} THEN {"not_friend"}
    ELSE {IF trust_level <= FRIEND THEN "insufficient_trust" ELSE "ok" :
            trust_level \in GetTrustLevel(sender_id, recipient_id)}

\* _check_messaging_permission: the outcomes the call may have.
CheckMessagingPermission(sender_id, recipient_id) ==
    IF GetTrustLevel(sender_id, recipient_id) = {} THEN {"not_friend"}
    ELSE {IF trust_level < FRIEND THEN "insufficient_trust" ELSE "ok" :
            trust_level \in GetTrustLevel(sender_id, recipient_id)}

\* _create_or_update_conversation raising, in an existing conversation, the
\* unread count of the sender instead of the recipient's.
CreateOrUpdateConversationForSender(convs, conversation_id, participant_ids, last_message_content, last_message_sender_id, recipient_id, now) ==
    IF conversation_id \notin DOMAIN convs
    THEN Put(convs, conversation_id,
             [participant_ids |-> participant_ids,
              last_message_at |-> now,
              last_message_content |-> last_message_content,
              last_message_sender_id |-> last_message_sender_id,
              unread_counts |->
                  Put(Put(Put(<<>>, participant_ids[1], 0), participant_ids[2], 0),
                      recipient_id, 1)])
    ELSE Put(convs, conversation_id,
             [convs[conversation_id] EXCEPT
                 !.last_message_at = now,
                 !.last_message_content = last_message_content,
                 !.last_message_sender_id = last_message_sender_id,
                 !.unread_counts = Put(@, last_message_sender_id,
                                       Get(@, last_message_sender_id, 0) + 1)])

\* _create_or_update_conversation: the conversations collection afterwards.
CreateOrUpdateConversation(convs, conversation_id, participant_ids, last_message_content, last_message_sender_id, recipient_id, now) ==
    IF conversation_id \notin DOMAIN convs
    THEN Put(convs, conversation_id,
             [participant_ids |-> participant_ids,
              last_message_at |-> now,
              last_message_content |-> last_message_content,
              last_message_sender_id |-> last_message_sender_id,
              unread_counts |->
                  Put(Put(Put(<<>>, participant_ids[1], 0), participant_ids[2], 0),
                      recipient_id, 1)])
    ELSE Put(convs, conversation_id,
             [convs[conversation_id] EXCEPT
                 !.last_message_at = now,
                 !.last_message_content = last_message_content,
                 !.last_message_sender_id = last_message_sender_id,
                 !.unread_counts = Put(@, recipient_id, Get(@, recipient_id, 0) + 1)])

SendMessage(sender_id, recipient_id, content, now) ==
    \E permission \in CheckMessagingPermission(sender_id, recipient_id) :
    LET outcome ==
            IF sender_id = recipient_id THEN "self_message"
            ELSE IF GetUserByUid(recipient_id) = None THEN "recipient_not_found"
            ELSE permission
    IN
    /\ now \in UtcNow
    /\ IF outcome = "ok"
       THEN /\ Len(messages) < MaxMessages
            /\ messages' = Append(messages, NewMessage(sender_id, recipient_id, content))
            /\ conversations' =
                CreateOrUpdateConversation(
                    conversations, GetConversationId(sender_id, recipient_id),
                    <<sender_id, recipient_id>>, content, sender_id, recipient_id, now)
            /\ tally' = Tallied(tally, GetConversationId(sender_id, recipient_id),
                                recipient_id, 1, 0)
       ELSE UNCHANGED <<messages, conversations, tally>>
    /\ last' = Response("send_message", sender_id, <<recipient_id, content>>, outcome,
                        IF outcome = "ok" THEN Len(messages) + 1 ELSE None)
    /\ UNCHANGED <<friend_requests, friendships, inflight>>
    /\ UNCHANGED address_vars
    /\ UNCHANGED location_vars

\* The loop of reveal_messages over message_ids, from the store msgs with
\* updated_count = count: the store and the response when it ends or raises.
RECURSIVE RevealLoop(_, _, _, _, _)
RevealLoop(msgs, user_id, message_ids, now, count) ==
    IF message_ids = <<>>
    THEN [messages |-> msgs, outcome |-> "ok", value |-> count]
    ELSE LET message_id == Head(message_ids) IN
         IF ~Exists(msgs, message_id)
         THEN RevealLoop(msgs, user_id, Tail(message_ids), now, count)
         ELSE IF msgs[message_id].recipient_id # user_id
         THEN [messages |-> msgs, outcome |-> "permission", value |-> None]
         ELSE IF msgs[message_id].is_visible_to_recipient
         THEN RevealLoop(msgs, user_id, Tail(message_ids), now, count)
         ELSE RevealLoop(
                 [msgs EXCEPT ![message_id] =
                     [@ EXCEPT !.is_visible_to_recipient = TRUE, !.revealed_at = <<now>>]],
                 user_id, Tail(message_ids), now, count + 1)

RevealMessages(user_id, message_ids, now) ==
    LET r == RevealLoop(messages, user_id, message_ids, now, 0) IN
    /\ now \in UtcNow
    /\ messages' = r.messages
    /\ last' = Response("reveal_messages", user_id, message_ids, r.outcome, r.value)
    /\ UNCHANGED <<friend_requests, friendships, conversations, inflight, tally>>
    /\ UNCHANGED address_vars
    /\ UNCHANGED location_vars

\* The first loop of mark_messages_as_read without its skip of a message that
\* is read already.
RECURSIVE MarkLoopRemarking(_, _, _, _, _, _)
MarkLoopRemarking(msgs, user_id, message_ids, now, count, decrements) ==
    IF message_ids = <<>>
    THEN [messages |-> msgs, outcome |-> "ok", value |-> count,
          decrements |-> decrements]
    ELSE LET message_id == Head(message_ids) IN
         IF ~Exists(msgs, message_id)
         THEN MarkLoopRemarking(msgs, user_id, Tail(message_ids), now, count, decrements)
         ELSE IF msgs[message_id].recipient_id # user_id
         THEN [messages |-> msgs, outcome |-> "permission", value |-> None,
               decrements |-> <<>>]
         ELSE MarkLoopRemarking(
                 [msgs EXCEPT ![message_id] =
                     [@ EXCEPT !.is_read = TRUE, !.read_at = <<now>>]],
                 user_id, Tail(message_ids), now, count + 1,
                 Put(decrements, msgs[message_id].conversation_id,
                     Get(decrements, msgs[message_id].conversation_id, 0) + 1))

\* The first loop of mark_messages_as_read checking the recipient of every
\* id before it writes anything: a call that fails leaves no message marked.
RECURSIVE MarkLoopCheckingFirst(_, _, _, _, _, _)
MarkLoopCheckingFirst(msgs, user_id, message_ids, now, count, decrements) ==
    IF \E i \in DOMAIN message_ids :
            Exists(msgs, message_ids[i]) /\ msgs[message_ids[i]].recipient_id # user_id
    THEN [messages |-> msgs, outcome |-> "permission", value |-> None,
          decrements |-> <<>>]
    ELSE IF message_ids = <<>>
    THEN [messages |-> msgs, outcome |-> "ok", value |-> count,
          decrements |-> decrements]
    ELSE LET message_id == Head(message_ids) IN
         IF ~Exists(msgs, message_id) \/ msgs[message_id].is_read
         THEN MarkLoopCheckingFirst(msgs, user_id, Tail(message_ids), now, count, decrements)
         ELSE MarkLoopCheckingFirst(
                 [msgs EXCEPT ![message_id] =
                     [@ EXCEPT !.is_read = TRUE, !.read_at = <<now>>]],
                 user_id, Tail(message_ids), now, count + 1,
                 Put(decrements, msgs[message_id].conversation_id,
                     Get(decrements, msgs[message_id].conversation_id, 0) + 1))

\* The first loop of mark_messages_as_read passing over a message that its
\* recipient has not revealed.
RECURSIVE MarkLoopRevealedOnly(_, _, _, _, _, _)
MarkLoopRevealedOnly(msgs, user_id, message_ids, now, count, decrements) ==
    IF message_ids = <<>>
    THEN [messages |-> msgs, outcome |-> "ok", value |-> count,
          decrements |-> decrements]
    ELSE LET message_id == Head(message_ids) IN
         IF ~Exists(msgs, message_id)
         THEN MarkLoopRevealedOnly(msgs, user_id, Tail(message_ids), now, count, decrements)
         ELSE IF msgs[message_id].recipient_id # user_id
         THEN [messages |-> msgs, outcome |-> "permission", value |-> None,
               decrements |-> <<>>]
         ELSE IF msgs[message_id].is_read \/ ~msgs[message_id].is_visible_to_recipient
         THEN MarkLoopRevealedOnly(msgs, user_id, Tail(message_ids), now, count, decrements)
         ELSE MarkLoopRevealedOnly(
                 [msgs EXCEPT ![message_id] =
                     [@ EXCEPT !.is_read = TRUE, !.read_at = <<now>>]],
                 user_id, Tail(message_ids), now, count + 1,
                 Put(decrements, msgs[message_id].conversation_id,
                     Get(decrements, msgs[message_id].conversation_id, 0) + 1))

\* The first loop of mark_messages_as_read, with the decrements collected so
\* far: the store, the response and conversation_unread_decrements at its end.
RECURSIVE MarkLoop(_, _, _, _, _, _)
MarkLoop(msgs, user_id, message_ids, now, count, decrements) ==
    IF message_ids = <<>>
    THEN [messages |-> msgs, outcome |-> "ok", value |-> count,
          decrements |-> decrements]
    ELSE LET message_id == Head(message_ids) IN
         IF ~Exists(msgs, message_id)
         THEN MarkLoop(msgs, user_id, Tail(message_ids), now, count, decrements)
         ELSE IF msgs[message_id].recipient_id # user_id
         THEN [messages |-> msgs, outcome |-> "permission", value |-> None,
               decrements |-> <<>>]
         ELSE IF msgs[message_id].is_read
         THEN MarkLoop(msgs, user_id, Tail(message_ids), now, count, decrements)
         ELSE MarkLoop(
                 [msgs EXCEPT ![message_id] =
                     [@ EXCEPT !.is_read = TRUE, !.read_at = <<now>>]],
                 user_id, Tail(message_ids), now, count + 1,
                 Put(decrements, msgs[message_id].conversation_id,
                     Get(decrements, msgs[message_id].conversation_id, 0) + 1))

\* new_unread without the floor at zero.
NewUnreadUnfloored(current_unread, decrement) ==
    current_unread - decrement

\* new_unread = max(0, current_unread - decrement)
NewUnread(current_unread, decrement) ==
    Max(0, current_unread - decrement)

\* The second loop of mark_messages_as_read lowering a count by one whatever
\* the conversation's decrement is.
ApplyDecrementsByOne(convs, user_id, decrements) ==
    [c \in DOMAIN convs |->
        IF c \in DOMAIN decrements
        THEN [convs[c] EXCEPT !.unread_counts =
                 Put(@, user_id, NewUnread(Get(@, user_id, 0), 1))]
        ELSE convs[c]]

\* The second loop of mark_messages_as_read: every conversation with a
\* decrement gets the reader's unread count lowered.
ApplyDecrements(convs, user_id, decrements) ==
    [c \in DOMAIN convs |->
        IF c \in DOMAIN decrements
        THEN [convs[c] EXCEPT !.unread_counts =
                 Put(@, user_id, NewUnread(Get(@, user_id, 0), decrements[c]))]
        ELSE convs[c]]

MarkMessagesAsRead(user_id, message_ids, now) ==
    LET r == MarkLoop(messages, user_id, message_ids, now, 0, <<>>) IN
    /\ now \in UtcNow
    /\ messages' = r.messages
    /\ conversations' =
        IF r.outcome = "ok"
        THEN ApplyDecrements(conversations, user_id, r.decrements)
        ELSE conversations
    /\ tally' =
        IF r.outcome = "ok"
        THEN [k \in DOMAIN tally |->
                IF k[2] = user_id
                THEN [tally[k] EXCEPT !.marked = @ + Cardinality(NewlyRead(messages, r.messages, k[1]))]
                ELSE tally[k]]
        ELSE tally
    /\ last' = Response("mark_messages_as_read", user_id, message_ids, r.outcome, r.value)
    /\ UNCHANGED <<friend_requests, friendships, inflight>>
    /\ UNCHANGED address_vars
    /\ UNCHANGED location_vars

\* delete_message without its check that the caller is the sender.
DeleteMessageByAnyone(user_id, message_id) ==
    LET outcome ==
            IF ~Exists(messages, message_id) THEN "message_not_found" ELSE "ok"
    IN
    /\ messages' =
        IF outcome = "ok" THEN [messages EXCEPT ![message_id] = Deleted] ELSE messages
    /\ last' = Response("delete_message", user_id, message_id, outcome, None)
    /\ UNCHANGED <<friend_requests, friendships, conversations, inflight, tally>>
    /\ UNCHANGED address_vars
    /\ UNCHANGED location_vars

\* delete_message giving the right to delete to the recipient instead of the
\* sender.
DeleteMessageByRecipient(user_id, message_id) ==
    LET outcome ==
            IF ~Exists(messages, message_id) THEN "message_not_found"
            ELSE IF messages[message_id].recipient_id # user_id THEN "permission"
            ELSE "ok"
    IN
    /\ messages' =
        IF outcome = "ok" THEN [messages EXCEPT ![message_id] = Deleted] ELSE messages
    /\ last' = Response("delete_message", user_id, message_id, outcome, None)
    /\ UNCHANGED <<friend_requests, friendships, conversations, inflight, tally>>
    /\ UNCHANGED address_vars
    /\ UNCHANGED location_vars

DeleteMessage(user_id, message_id) ==
    LET outcome ==
            IF ~Exists(messages, message_id) THEN "message_not_found"
            ELSE IF messages[message_id].sender_id # user_id THEN "permission"
            ELSE "ok"
    IN
    /\ messages' =
        IF outcome = "ok" THEN [messages EXCEPT ![message_id] = Deleted] ELSE messages
    /\ last' = Response("delete_message", user_id, message_id, outcome, None)
    /\ UNCHANGED <<friend_requests, friendships, conversations, inflight, tally>>
    /\ UNCHANGED address_vars
    /\ UNCHANGED location_vars

\* The query of get_conversation_messages: the ids of the conversation's
\* messages at index cursor and below, newest first, at most limit of them.
RECURSIVE QueryMessages(_, _, _, _)
QueryMessages(msgs, conversation_id, cursor, limit) ==
    IF cursor = 0 \/ limit = 0 THEN <<>>
    ELSE IF Exists(msgs, cursor) /\ msgs[cursor].conversation_id = conversation_id
    THEN <<cursor>> \o QueryMessages(msgs, conversation_id, cursor - 1, limit - 1)
    ELSE QueryMessages(msgs, conversation_id, cursor - 1, limit)

Reverse(seq) ==
    [i \in 1..Len(seq) |-> seq[Len(seq) + 1 - i]]

\* get_conversation_messages without its filter of unrevealed messages.
ConversationMessagesUnfiltered(msgs, user_id, other_user_id, limit, before_message_id) ==
    LET start ==
            IF before_message_id # <<>> /\ Exists(msgs, before_message_id[1])
            THEN before_message_id[1] - 1
            ELSE Len(msgs)
    IN Reverse(QueryMessages(msgs, GetConversationId(user_id, other_user_id), start, limit))

\* The list get_conversation_messages returns, as message ids;
\* before_message_id is <<>> (not given) or <<id>>.
ConversationMessages(msgs, user_id, other_user_id, limit, before_message_id) ==
    LET start ==
            IF before_message_id # <<>> /\ Exists(msgs, before_message_id[1])
            THEN before_message_id[1] - 1
            ELSE Len(msgs)
        page == QueryMessages(msgs, GetConversationId(user_id, other_user_id), start, limit)
        Kept(i) == ~(msgs[i].recipient_id = user_id /\ ~msgs[i].is_visible_to_recipient)
    IN Reverse(SelectSeq(page, Kept))

GetConversationMessages(user_id, other_user_id, limit, before_message_id) ==
    \E outcome \in CheckMessagingPermission(user_id, other_user_id) :
        /\ last' = Response("get_conversation_messages", user_id,
                            <<other_user_id, limit, before_message_id>>, outcome,
                            IF outcome = "ok"
                            THEN ConversationMessages(messages, user_id, other_user_id,
                                                      limit, before_message_id)
                            ELSE None)
        /\ UNCHANGED <<friend_requests, friendships, messages, conversations, inflight, tally>>
    /\ UNCHANGED address_vars
    /\ UNCHANGED location_vars

\* ------------------------------------------------ users service: addresses
\* Time is counted in ticks, TicksPerDay of them to the day, so that an
\* elapsed time has a whole number of days and a remainder, as a timedelta
\* has. The clock is read at the instants below: day 0, day 10, half a day
\* before the lock of an address changed at day 0 or day 10 ends, and the
\* days those locks end.
TicksPerDay == 2
Instants ==
    {0, 10 * TicksPerDay,
     LOCATION_CHANGE_LOCK_DAYS * TicksPerDay - 1,
     LOCATION_CHANGE_LOCK_DAYS * TicksPerDay,
     (LOCATION_CHANGE_LOCK_DAYS + 10) * TicksPerDay - 1,
     (LOCATION_CHANGE_LOCK_DAYS + 10) * TicksPerDay}

AddressTypes == {"home", "work", "school"}
Coordinates ==
    {[latitude |-> 35, longitude |-> 139], [latitude |-> 34, longitude |-> 135]}

\* address = user.home_address if address_type == HOME else user.work_address
AddressOf(user, address_type) ==
    IF address_type = "home" THEN user.home_address ELSE user.work_address

\* (datetime.now(UTC) - address.last_changed_at).days; timedelta.days is the
\* floor of the elapsed days.
DaysSinceChange(address, now) ==
    (now - address[1].last_changed_at) \div TicksPerDay

CanChangeAddress(uid, address_type, now) ==
    IF GetUserByUid(uid) = None THEN FALSE
    ELSE LET address == AddressOf(addresses[uid], address_type) IN
         IF address = Null THEN TRUE
         ELSE DaysSinceChange(address, now) >= LOCATION_CHANGE_LOCK_DAYS

\* get_address_change_days_remaining: <<>> for None, <<n>> for n days.
GetAddressChangeDaysRemaining(uid, address_type, now) ==
    IF GetUserByUid(uid) = None THEN Null
    ELSE LET address == AddressOf(addresses[uid], address_type) IN
         IF address = Null THEN Null
         ELSE <<Max(0, LOCATION_CHANGE_LOCK_DAYS - DaysSinceChange(address, now))>>

\* The route get_address_change_status: both answers, for the signed-in user.
GetAddressChangeStatus(uid, address_type) ==
    /\ last' = Response("get_address_change_status", uid, address_type, "ok",
                        [can_change |-> CanChangeAddress(uid, address_type, clock),
                         days_remaining |->
                             GetAddressChangeDaysRemaining(uid, address_type, clock)])
    /\ UNCHANGED address_vars
    /\ UNCHANGED location_vars
    /\ UNCHANGED social_vars
    /\ UNCHANGED location_vars

\* The address update_address stores.
NewAddress(address_data, now) ==
    <<[latitude |-> address_data.latitude, longitude |-> address_data.longitude,
       registered_at |-> now, last_changed_at |-> now]>>

\* field_name = "home_address" if address_type == HOME else "work_address"
WithAddress(user, address_type, address) ==
    IF address_type = "home" THEN [user EXCEPT !.home_address = address]
    ELSE [user EXCEPT !.work_address = address]

\* update_address for a signed-in user; the handler's readings of the clock
\* fall in one tick.
UpdateAddress(uid, address_type, address_data) ==
    /\ IF ~CanChangeAddress(uid, address_type, clock)
       THEN /\ last' = Response("update_address", uid, <<address_type, address_data>>,
                                "locked",
                                LOCATION_CHANGE_LOCK_DAYS
                                    - DaysSinceChange(AddressOf(addresses[uid], address_type),
                                                      clock))
            /\ UNCHANGED addresses
       ELSE /\ addresses' = [addresses EXCEPT ![uid] =
                    WithAddress(@, address_type, NewAddress(address_data, clock))]
            /\ last' = Response("update_address", uid, <<address_type, address_data>>,
                                "ok", None)
    /\ UNCHANGED <<address_change_requests, clock>>
    /\ UNCHANGED social_vars
    /\ UNCHANGED location_vars

\* The current coordinates create_special_address_change_request records:
\* those of the home address for HOME, of the work address for WORK, none
\* otherwise.
CurrentCoordinates(user, address_type) ==
    IF address_type = "home" /\ user.home_address # Null
    THEN <<[latitude |-> user.home_address[1].latitude,
            longitude |-> user.home_address[1].longitude]>>
    ELSE IF address_type = "work" /\ user.work_address # Null
    THEN <<[latitude |-> user.work_address[1].latitude,
            longitude |-> user.work_address[1].longitude]>>
    ELSE Null

\* create_special_address_change_request for a signed-in user; new_coordinates
\* stands for new_latitude and new_longitude.
CreateSpecialAddressChangeRequest(uid, address_type, new_coordinates) ==
    LET outcome ==
            IF CanChangeAddress(uid, address_type, clock)
            THEN "normal_change_possible" ELSE "ok"
    IN
    /\ outcome = "ok" => Len(address_change_requests) < MaxAddressRequests
    /\ address_change_requests' =
        IF outcome = "ok"
        THEN Append(address_change_requests,
                    [user_id |-> uid, address_type |-> address_type,
                     new_coordinates |-> new_coordinates,
                     current_coordinates |->
                         CurrentCoordinates(addresses[uid], address_type),
                     status |-> "pending"])
        ELSE address_change_requests
    /\ last' = Response("create_special_address_change_request", uid,
                        <<address_type, new_coordinates>>, outcome,
                        IF outcome = "ok" THEN Len(address_change_requests) + 1 ELSE None)
    /\ UNCHANGED <<addresses, clock>>
    /\ UNCHANGED social_vars
    /\ UNCHANGED location_vars

\* Time passes, to a later instant; the response of the last call is of the
\* earlier instant and is dropped.
Advance(now) ==
    /\ now \in Instants /\ now > clock
    /\ clock' = now
    /\ last' = Response("none", None, None, None, None)
    /\ UNCHANGED <<addresses, address_change_requests>>
    /\ UNCHANGED social_vars
    /\ UNCHANGED location_vars

\* -------------------------------------------------------- location service
\* Every point of the model lies on one meridian, and a latitude is counted
\* in metres of arc along it. There delta_lon = 0, the haversine term a is
\* sin(delta_lat / 2) ** 2, c is |delta_lat|, and the distance R * c is the
\* length of the arc between the two latitudes.
Meridian == 135

CalculateDistance(lat1, lon1, lat2, lon2) ==
    IF lat2 >= lat1 THEN lat2 - lat1 ELSE lat1 - lat2

\* Latitudes of the fixes a device reports, and the speeds (none, or tenths
\* of a m/s).
FixLatitudes == {150, 200, 201, 1000, 1450, 3000}
Speeds == {<<>>, <<14>>, <<15>>, <<20>>}

\* A registered address at the latitude.
AddressAt(latitude) ==
    <<[latitude |-> latitude, longitude |-> Meridian,
       registered_at |-> 0, last_changed_at |-> 0]>>

\* Custom locations: a cafe without a radius_meters field and a gym with one.
Cafe == [name |-> "cafe", latitude |-> 150, longitude |-> Meridian, radius_meters |-> <<>>]
Gym == [name |-> "gym", latitude |-> 200, longitude |-> Meridian, radius_meters |-> <<100>>]

\* The loop of determine_location_status over custom_locations: the first
\* custom location within its radius, if any.
RECURSIVE FirstCustomLocation(_, _, _)
FirstCustomLocation(locations, latitude, longitude) ==
    IF locations = <<>> THEN <<>>
    ELSE LET custom_loc == Head(locations)
             radius == IF custom_loc.radius_meters = <<>>
                       THEN DEFAULT_RADIUS_METERS
                       ELSE custom_loc.radius_meters[1]
         IN IF CalculateDistance(latitude, longitude,
                                 custom_loc.latitude, custom_loc.longitude) <= radius
            THEN <<custom_loc>>
            ELSE FirstCustomLocation(Tail(locations), latitude, longitude)

\* The address is registered and the fix is within the radius of it.
WithinRadius(address, latitude, longitude, radius) ==
    /\ address # <<>>
    /\ CalculateDistance(latitude, longitude,
                         address[1].latitude, address[1].longitude) <= radius

\* determine_location_status with the work place tested before the home.
DetermineLocationStatusWorkFirst(user_id, latitude, longitude, speed) ==
    IF GetUserByUid(user_id) = None
    THEN [status |-> "unknown", custom_location_name |-> None]
    ELSE LET user_data == addresses[user_id]
             custom == FirstCustomLocation(custom_locations[user_id], latitude, longitude)
         IN
         IF WithinRadius(user_data.work_address, latitude, longitude, WORK_RADIUS_METERS)
         THEN [status |-> "work", custom_location_name |-> None]
         ELSE IF WithinRadius(user_data.home_address, latitude, longitude, HOME_RADIUS_METERS)
         THEN [status |-> "home", custom_location_name |-> None]
         ELSE IF WithinRadius(user_data.school_address, latitude, longitude, SCHOOL_RADIUS_METERS)
         THEN [status |-> "school", custom_location_name |-> None]
         ELSE IF custom # <<>>
         THEN [status |-> "custom", custom_location_name |-> custom[1].name]
         ELSE IF speed # <<>> /\ speed[1] > MOVING_SPEED
         THEN [status |-> "moving", custom_location_name |-> None]
         ELSE [status |-> "unknown", custom_location_name |-> None]

\* determine_location_status: the status and the custom location name.
DetermineLocationStatus(user_id, latitude, longitude, speed) ==
    IF GetUserByUid(user_id) = None
    THEN [status |-> "unknown", custom_location_name |-> None]
    ELSE LET user_data == addresses[user_id]
             custom == FirstCustomLocation(custom_locations[user_id], latitude, longitude)
         IN
         IF WithinRadius(user_data.home_address, latitude, longitude, HOME_RADIUS_METERS)
         THEN [status |-> "home", custom_location_name |-> None]
         ELSE IF WithinRadius(user_data.work_address, latitude, longitude, WORK_RADIUS_METERS)
         THEN [status |-> "work", custom_location_name |-> None]
         ELSE IF WithinRadius(user_data.school_address, latitude, longitude, SCHOOL_RADIUS_METERS)
         THEN [status |-> "school", custom_location_name |-> None]
         ELSE IF custom # <<>>
         THEN [status |-> "custom", custom_location_name |-> custom[1].name]
         ELSE IF speed # <<>> /\ speed[1] > MOVING_SPEED
         THEN [status |-> "moving", custom_location_name |-> None]
         ELSE [status |-> "unknown", custom_location_name |-> None]

\* A call of determine_location_status and what it returns.
ResolveStatus(user_id, latitude, speed) ==
    /\ last' = Response("determine_location_status", user_id, <<latitude, speed>>, "ok",
                        DetermineLocationStatus(user_id, latitude, Meridian, speed))
    /\ UNCHANGED social_vars
    /\ UNCHANGED address_vars
    /\ UNCHANGED location_vars

\* The instants at which the clock of the location service is read: day 0,
\* half a day later, and around the end of the retention of an entry written
\* at either.
LocationInstants ==
    {0, 1,
     LOCATION_HISTORY_RETENTION_DAYS * TicksPerDay,
     LOCATION_HISTORY_RETENTION_DAYS * TicksPerDay + 1,
     LOCATION_HISTORY_RETENTION_DAYS * TicksPerDay + 2}

\* The deletion of old location_history documents without the filter on
\* user_id: every user's old documents go.
PrunedOfEveryUser(history, user_id, retention_date) ==
    LET kept == {h \in BagToSet(history) : ~(h.timestamp < retention_date)}
    IN [h \in kept |-> history[h]]

\* The location_history documents left by the deletion of the user's
\* documents with timestamp < retention_date.
Pruned(history, user_id, retention_date) ==
    LET kept == {h \in BagToSet(history) :
                    ~(h.user_id = user_id /\ h.timestamp < retention_date)}
    IN [h \in kept |-> history[h]]

\* update_location. The encrypted payload of the fix is opaque to the service
\* and is left out of the documents.
UpdateLocation(user_id, location_data) ==
    LET now == clock
        resolved == DetermineLocationStatus(user_id, location_data.latitude,
                                            location_data.longitude, location_data.speed)
        retention_date == now - LOCATION_HISTORY_RETENTION_DAYS * TicksPerDay
    IN
    /\ BagCardinality(location_history) <= MaxHistory
    /\ user_locations' =
        [user_locations EXCEPT ![user_id] =
            <<[user_id |-> user_id,
               status |-> resolved.status,
               custom_location_name |-> resolved.custom_location_name,
               last_updated |-> now]>>]
    /\ location_history' =
        Pruned(location_history (+) SetToBag({
                    [user_id |-> user_id,
                     status |-> resolved.status,
                     custom_location_name |-> resolved.custom_location_name,
                     timestamp |-> now]}),
               user_id, retention_date)
    /\ last' = Response("update_location", user_id, location_data, "ok",
                        [user_id |-> user_id,
                         status |-> resolved.status,
                         last_updated |-> now,
                         custom_location_name |-> resolved.custom_location_name])
    /\ UNCHANGED <<custom_locations>>
    /\ UNCHANGED social_vars
    /\ UNCHANGED address_vars

\* What get_current_location returns: nothing without a user_locations
\* document, else the response built from it and from the user document. (The
\* display string and the colour are functions of the status.)
CurrentLocation(user_id) ==
    IF user_id \notin DOMAIN user_locations \/ user_locations[user_id] = <<>>
    THEN <<>>
    ELSE LET location_data == user_locations[user_id][1] IN
         <<[user_id |-> user_id,
            status |-> location_data.status,
            last_updated |-> location_data.last_updated,
            custom_location_name |-> location_data.custom_location_name,
            is_home_registered |-> addresses[user_id].home_address # <<>>,
            is_work_registered |-> addresses[user_id].work_address # <<>>,
            is_school_registered |-> addresses[user_id].school_address # <<>>]>>

GetCurrentLocation(user_id) ==
    /\ last' = Response("get_current_location", user_id, None, "ok", CurrentLocation(user_id))
    /\ UNCHANGED social_vars
    /\ UNCHANGED address_vars
    /\ UNCHANGED location_vars

\* The query of get_friend_location: the friendships documents of user_id for
\* friend_id with status "accepted".
FriendDocs(user_id, friend_id) ==
    {d \in BagToSet(friendships) :
        d.user_id = user_id /\ d.friend_id = friend_id /\ d.status = "accepted"}

GetFriendLocation(user_id, friend_id) ==
    /\ last' =
        IF FriendDocs(user_id, friend_id) = {}
        THEN Response("get_friend_location", user_id, friend_id, "no_friendship", <<>>)
        ELSE Response("get_friend_location", user_id, friend_id, "ok",
                      CurrentLocation(friend_id))
    /\ UNCHANGED social_vars
    /\ UNCHANGED address_vars
    /\ UNCHANGED location_vars

\* Time passes, to a later instant of the location service; the response of
\* the last call is of the earlier instant and is dropped.
Elapse(now) ==
    /\ now \in LocationInstants /\ now > clock
    /\ clock' = now
    /\ last' = Response("none", None, None, None, None)
    /\ UNCHANGED <<addresses, address_change_requests>>
    /\ UNCHANGED social_vars
    /\ UNCHANGED location_vars

\* ------------------------------------------------- handlers step by step
\* The services hold no lock and open no transaction: a handler is a series
\* of store accesses, and the accesses of handlers running in different server
\* processes interleave. A handler stopped between two accesses is a record
\* of inflight holding its position (pc) and its local variables.
Resume(p, q) ==
    (inflight (-) SetToBag({p})) (+) SetToBag({q})

Return(p) ==
    inflight (-) SetToBag({p})

\* send_friend_request up to and including its query for a pending request.
SendFriendRequestCheck(from_user_id, to_user_id) ==
    LET outcome == SendRequestOutcome(from_user_id, to_user_id) IN
    /\ BagCardinality(inflight) < MaxHandlers
    /\ outcome = "ok" => Len(friend_requests) + BagCardinality(inflight) < MaxRequests
    /\ IF outcome = "ok"
       THEN /\ inflight' = inflight (+) SetToBag({
                    [op |-> "send_friend_request", user |-> from_user_id,
                     to_user_id |-> to_user_id, pc |-> "set"]})
            /\ UNCHANGED last
       ELSE /\ last' = Response("send_friend_request", from_user_id, to_user_id,
                                outcome, None)
            /\ UNCHANGED inflight
    /\ UNCHANGED <<friend_requests, friendships, messages, conversations, tally>>
    /\ UNCHANGED address_vars
    /\ UNCHANGED location_vars

\* send_friend_request from request_ref.set on.
SendFriendRequestSet ==
    \E p \in BagToSet(inflight) :
        /\ p.op = "send_friend_request"
        /\ friend_requests' = Append(friend_requests, NewRequest(p.user, p.to_user_id))
        /\ last' = Response("send_friend_request", p.user, p.to_user_id, "ok",
                            Len(friend_requests) + 1)
        /\ inflight' = Return(p)
        /\ UNCHANGED <<friendships, messages, conversations, tally>>
    /\ UNCHANGED address_vars
    /\ UNCHANGED location_vars

\* accept_friend_request up to and including its checks of the request read.
AcceptFriendRequestGet(user_id, request_id) ==
    LET outcome == RespondOutcome(user_id, request_id) IN
    /\ BagCardinality(inflight) < MaxHandlers
    /\ IF outcome = "ok"
       THEN /\ inflight' = inflight (+) SetToBag({
                    [op |-> "accept_friend_request", user |-> user_id,
                     request_id |-> request_id, pc |-> "update",
                     request_data |-> friend_requests[request_id]]})
            /\ UNCHANGED last
       ELSE /\ last' = Response("accept_friend_request", user_id, request_id,
                                outcome, None)
            /\ UNCHANGED inflight
    /\ UNCHANGED <<friend_requests, friendships, messages, conversations, tally>>
    /\ UNCHANGED address_vars
    /\ UNCHANGED location_vars

\* accept_friend_request: request_ref.update.
AcceptFriendRequestUpdate ==
    \E p \in BagToSet(inflight) :
        /\ p.op = "accept_friend_request" /\ p.pc = "update"
        /\ friend_requests' = [friend_requests EXCEPT ![p.request_id].status = "accepted"]
        /\ inflight' = Resume(p, [p EXCEPT !.pc = "friendship1"])
        /\ UNCHANGED <<friendships, messages, conversations, last, tally>>
    /\ UNCHANGED address_vars
    /\ UNCHANGED location_vars

\* accept_friend_request: the first _create_friendship.
AcceptFriendRequestFirst ==
    \E p \in BagToSet(inflight) :
        /\ p.op = "accept_friend_request" /\ p.pc = "friendship1"
        /\ friendships' = CreateFriendship(friendships, p.request_data.to_user_id,
                                           p.request_data.from_user_id, FRIEND)
        /\ inflight' = Resume(p, [p EXCEPT !.pc = "friendship2"])
        /\ UNCHANGED <<friend_requests, messages, conversations, last, tally>>
    /\ UNCHANGED address_vars
    /\ UNCHANGED location_vars

\* accept_friend_request: the second _create_friendship and the return.
AcceptFriendRequestSecond ==
    \E p \in BagToSet(inflight) :
        /\ p.op = "accept_friend_request" /\ p.pc = "friendship2"
        /\ friendships' = CreateFriendship(friendships, p.request_data.from_user_id,
                                           p.request_data.to_user_id, FRIEND)
        /\ last' = Response("accept_friend_request", p.user, p.request_id, "ok", None)
        /\ inflight' = Return(p)
        /\ UNCHANGED <<friend_requests, messages, conversations, tally>>
    /\ UNCHANGED address_vars
    /\ UNCHANGED location_vars

\* accept_friend_request ended after one of its writes and before the next:
\* the next store call raised, or the server process stopped. Nothing the
\* handler wrote is undone.
AcceptFriendRequestInterrupted ==
    \E p \in BagToSet(inflight) :
        /\ p.op = "accept_friend_request" /\ p.pc \in {"friendship1", "friendship2"}
        /\ last' = Response("accept_friend_request", p.user, p.request_id,
                            "interrupted", None)
        /\ inflight' = Return(p)
        /\ UNCHANGED <<friend_requests, friendships, messages, conversations, tally>>
    /\ UNCHANGED address_vars
    /\ UNCHANGED location_vars

\* mark_messages_as_read: the call arrives and reads the clock; the store is
\* not read yet.
MarkMessagesAsReadBegin(user_id, message_ids, now) ==
    /\ BagCardinality(inflight) < MaxHandlers
    /\ now \in UtcNow
    /\ inflight' = inflight (+) SetToBag({
            [op |-> "mark_messages_as_read", user |-> user_id,
             message_ids |-> message_ids, rest |-> message_ids, pc |-> "get",
             now |-> now, updated_count |-> 0,
             conversation_unread_decrements |-> <<>>, unread_counts |-> <<>>]})
    /\ UNCHANGED <<friend_requests, friendships, messages, conversations, last, tally>>
    /\ UNCHANGED address_vars
    /\ UNCHANGED location_vars

\* Where mark_messages_as_read goes on as q after a store access made as p:
\* to the next message id, then to the conversations with a decrement, then
\* to the return of the number of messages marked.
MarkMessagesAsReadGoesOn(p, q) ==
    IF q.rest # <<>>
    THEN /\ inflight' = Resume(p, [q EXCEPT !.pc = "get"])
         /\ UNCHANGED last
    ELSE IF DOMAIN q.conversation_unread_decrements # {}
    THEN /\ inflight' = Resume(p, [q EXCEPT !.pc = "conversation_get"])
         /\ UNCHANGED last
    ELSE /\ inflight' = Return(p)
         /\ last' = Response("mark_messages_as_read", q.user, q.message_ids, "ok",
                             q.updated_count)

\* mark_messages_as_read: message_ref.get and the checks of the document read.
MarkMessagesAsReadGet ==
    \E p \in BagToSet(inflight) :
        /\ p.op = "mark_messages_as_read" /\ p.pc = "get"
        /\ LET message_id == Head(p.rest) IN
           IF ~Exists(messages, message_id)
           THEN MarkMessagesAsReadGoesOn(p, [p EXCEPT !.rest = Tail(@)])
           ELSE IF messages[message_id].recipient_id # p.user
           THEN /\ inflight' = Return(p)
                /\ last' = Response("mark_messages_as_read", p.user, p.message_ids,
                                    "permission", None)
           ELSE IF messages[message_id].is_read
           THEN MarkMessagesAsReadGoesOn(p, [p EXCEPT !.rest = Tail(@)])
           ELSE /\ inflight' = Resume(p, [p EXCEPT !.pc = "update"])
                /\ UNCHANGED last
        /\ UNCHANGED <<friend_requests, friendships, messages, conversations, tally>>
    /\ UNCHANGED address_vars
    /\ UNCHANGED location_vars

\* mark_messages_as_read: message_ref.update and the counting that follows.
\* The update of a document deleted since it was read raises in the store.
MarkMessagesAsReadUpdate ==
    \E p \in BagToSet(inflight) :
        /\ p.op = "mark_messages_as_read" /\ p.pc = "update"
        /\ LET message_id == Head(p.rest) IN
           IF ~Exists(messages, message_id)
           THEN /\ inflight' = Return(p)
                /\ last' = Response("mark_messages_as_read", p.user, p.message_ids,
                                    "store_error", None)
                /\ UNCHANGED messages
           ELSE /\ messages' = [messages EXCEPT ![message_id] =
                                   [@ EXCEPT !.is_read = TRUE, !.read_at = <<p.now>>]]
                /\ MarkMessagesAsReadGoesOn(p,
                       [p EXCEPT !.rest = Tail(@),
                                 !.updated_count = @ + 1,
                                 !.conversation_unread_decrements =
                                     Put(@, messages[message_id].conversation_id,
                                         Get(@, messages[message_id].conversation_id, 0) + 1)])
        /\ UNCHANGED <<friend_requests, friendships, conversations, tally>>
    /\ UNCHANGED address_vars
    /\ UNCHANGED location_vars

\* mark_messages_as_read: conversation_ref.get for the next conversation to
\* lower.
MarkMessagesAsReadConversationGet ==
    \E p \in BagToSet(inflight) :
        /\ p.op = "mark_messages_as_read" /\ p.pc = "conversation_get"
        /\ LET conversation_id == CHOOSE c \in DOMAIN p.conversation_unread_decrements : TRUE IN
           IF conversation_id \in DOMAIN conversations
           THEN /\ inflight' = Resume(p,
                       [p EXCEPT !.pc = "conversation_update",
                                 !.unread_counts =
                                     conversations[conversation_id].unread_counts])
                /\ UNCHANGED last
           ELSE MarkMessagesAsReadGoesOn(p,
                    [p EXCEPT !.conversation_unread_decrements =
                        [c \in DOMAIN @ \ {conversation_id} |-> @[c]]])
        /\ UNCHANGED <<friend_requests, friendships, messages, conversations, tally>>
    /\ UNCHANGED address_vars
    /\ UNCHANGED location_vars

\* mark_messages_as_read: conversation_ref.update, which writes the whole
\* unread_counts map as it was read, with the reader's count lowered.
MarkMessagesAsReadConversationUpdate ==
    \E p \in BagToSet(inflight) :
        /\ p.op = "mark_messages_as_read" /\ p.pc = "conversation_update"
        /\ LET conversation_id == CHOOSE c \in DOMAIN p.conversation_unread_decrements : TRUE IN
           /\ conversations' =
                [conversations EXCEPT ![conversation_id].unread_counts =
                    Put(p.unread_counts, p.user,
                        NewUnread(Get(p.unread_counts, p.user, 0),
                                  p.conversation_unread_decrements[conversation_id]))]
           /\ tally' = Tallied(tally, conversation_id, p.user, 0,
                               p.conversation_unread_decrements[conversation_id])
           /\ MarkMessagesAsReadGoesOn(p,
                  [p EXCEPT !.conversation_unread_decrements =
                      [c \in DOMAIN @ \ {conversation_id} |-> @[c]]])
        /\ UNCHANGED <<friend_requests, friendships, messages>>
    /\ UNCHANGED address_vars
    /\ UNCHANGED location_vars

\* send_message up to and including message_ref.set: the checks and the
\* message document. The conversation is not read yet.
SendMessageSet(sender_id, recipient_id, content) ==
    \E permission \in CheckMessagingPermission(sender_id, recipient_id) :
    LET outcome ==
            IF sender_id = recipient_id THEN "self_message"
            ELSE IF GetUserByUid(recipient_id) = None THEN "recipient_not_found"
            ELSE permission
    IN
    /\ BagCardinality(inflight) < MaxHandlers
    /\ IF outcome = "ok"
       THEN /\ Len(messages) < MaxMessages
            /\ messages' = Append(messages, NewMessage(sender_id, recipient_id, content))
            /\ inflight' = inflight (+) SetToBag({
                    [op |-> "send_message", user |-> sender_id,
                     recipient_id |-> recipient_id, content |-> content,
                     message_id |-> Len(messages) + 1,
                     conversation_id |-> GetConversationId(sender_id, recipient_id),
                     pc |-> "conversation_get", now |-> 0, exists |-> FALSE,
                     unread_counts |-> <<>>]})
            /\ UNCHANGED last
       ELSE /\ last' = Response("send_message", sender_id, <<recipient_id, content>>,
                                outcome, None)
            /\ UNCHANGED <<messages, inflight>>
    /\ UNCHANGED <<friend_requests, friendships, conversations, tally>>
    /\ UNCHANGED address_vars
    /\ UNCHANGED location_vars

\* _create_or_update_conversation: conversation_ref.get, then the reading of
\* the clock.
SendMessageConversationGet(now) ==
    \E p \in BagToSet(inflight) :
        /\ p.op = "send_message" /\ p.pc = "conversation_get"
        /\ now \in UtcNow
        /\ inflight' = Resume(p,
                [p EXCEPT !.pc = "conversation_write",
                          !.now = now,
                          !.exists = p.conversation_id \in DOMAIN conversations,
                          !.unread_counts =
                              IF p.conversation_id \in DOMAIN conversations
                              THEN conversations[p.conversation_id].unread_counts
                              ELSE <<>>])
        /\ UNCHANGED <<friend_requests, friendships, messages, conversations, last, tally>>
    /\ UNCHANGED address_vars
    /\ UNCHANGED location_vars

\* _create_or_update_conversation: conversation_ref.set of a new document if
\* none was read, else conversation_ref.update with the unread_counts map as
\* it was read and the recipient's count raised; then send_message returns.
SendMessageConversationWrite ==
    \E p \in BagToSet(inflight) :
        /\ p.op = "send_message" /\ p.pc = "conversation_write"
        /\ conversations' =
            IF ~p.exists
            THEN Put(conversations, p.conversation_id,
                     [participant_ids |-> <<p.user, p.recipient_id>>,
                      last_message_at |-> p.now,
                      last_message_content |-> p.content,
                      last_message_sender_id |-> p.user,
                      unread_counts |->
                          Put(Put(Put(<<>>, p.user, 0), p.recipient_id, 0),
                              p.recipient_id, 1)])
            ELSE [conversations EXCEPT ![p.conversation_id] =
                     [@ EXCEPT
                         !.last_message_at = p.now,
                         !.last_message_content = p.content,
                         !.last_message_sender_id = p.user,
                         !.unread_counts =
                             Put(p.unread_counts, p.recipient_id,
                                 Get(p.unread_counts, p.recipient_id, 0) + 1)]]
        /\ tally' = Tallied(tally, p.conversation_id, p.recipient_id, 1, 0)
        /\ last' = Response("send_message", p.user, <<p.recipient_id, p.content>>,
                            "ok", p.message_id)
        /\ inflight' = Return(p)
        /\ UNCHANGED <<friend_requests, friendships, messages>>
    /\ UNCHANGED address_vars
    /\ UNCHANGED location_vars

\* ------------------------------------------------------------ specification
Init ==
    /\ friend_requests = <<>>
    /\ friendships = EmptyBag
    /\ messages = <<>>
    /\ conversations = <<>>
    /\ last = Response("none", None, None, None, None)
    /\ inflight = EmptyBag
    /\ tally = <<>>
    /\ addresses = [uid \in Users |-> NoAddresses]
    /\ address_change_requests = <<>>
    /\ clock = 0
    /\ custom_locations = [uid \in Users |-> <<>>]
    /\ user_locations = [uid \in Users |-> <<>>]
    /\ location_history = EmptyBag

Next ==
    \/ \E u \in Users, v \in Uids : SendFriendRequest(u, v)
    \/ \E u \in Users, r \in 1..MaxRequests : AcceptFriendRequest(u, r)
    \/ \E u \in Users, r \in 1..MaxRequests : RejectFriendRequest(u, r)
    \/ \E u \in Users, v \in Users, t \in {{}} \cup {{l} : l \in TrustChoices} :
            UpdateFriendship(u, v, t, {})
    \/ \E u \in Users, v \in Users : RemoveFriend(u, v)
    \/ \E u \in Users, v \in Users : BlockUser(u, v)

Spec == Init /\ [][Next]_vars

\* ------------------------------------------- specification of the messages
\* The messages service, started either on the empty store or on the store as
\* it is once Bob has accepted Alice's friend request: the message state
\* machine and the unread counters under sends, reveals, reads and deletes.
Befriended ==
    /\ friend_requests =
        <<[from_user_id |-> Alice, to_user_id |-> Bob, status |-> "accepted"]>>
    /\ friendships =
        SetToBag({Friendship(Alice, Bob, FRIEND), Friendship(Bob, Alice, FRIEND)})

InitMessages ==
    /\ \/ friend_requests = <<>> /\ friendships = EmptyBag
       \/ Befriended
    /\ messages = <<>>
    /\ conversations = <<>>
    /\ last = Response("none", None, None, None, None)
    /\ inflight = EmptyBag
    /\ tally = <<>>
    /\ addresses = [uid \in Users |-> NoAddresses]
    /\ address_change_requests = <<>>
    /\ clock = 0
    /\ custom_locations = [uid \in Users |-> <<>>]
    /\ user_locations = [uid \in Users |-> <<>>]
    /\ location_history = EmptyBag

MessageIds == 1..MaxMessages
IdLists == UNION {[1..n -> MessageIds] : n \in 1..MaxBatch}
Cursors == {<<>>} \cup {<<i>> : i \in MessageIds}

NextMessages ==
    \/ \E u \in Users, v \in Uids, t \in Times : SendMessage(u, v, "c1", t)
    \/ \E u \in Users, ids \in IdLists, t \in Times : RevealMessages(u, ids, t)
    \/ \E u \in Users, ids \in IdLists, t \in Times : MarkMessagesAsRead(u, ids, t)
    \/ \E u \in Users, i \in MessageIds : DeleteMessage(u, i)

SpecMessages == InitMessages /\ [][NextMessages]_vars

\* ---------------------------------------------- specification of listing
\* get_conversation_messages over the stores that sends, reveals and deletes
\* produce.
NextListing ==
    \/ \E u \in Users, v \in Users, t \in Times : SendMessage(u, v, "c1", t)
    \/ \E u \in Users, ids \in IdLists, t \in Times : RevealMessages(u, ids, t)
    \/ \E u \in Users, i \in MessageIds : DeleteMessage(u, i)
    \/ \E u \in Users, v \in Users, n \in 1..MaxLimit, b \in Cursors :
            GetConversationMessages(u, v, n, b)

SpecListing == InitMessages /\ [][NextListing]_vars

\* ------------------------------------------- specification of the deletes
\* delete_message among the calls that meet a deleted id afterwards: batches
\* of one id to reveal or mark, and the listing of the conversation.
NextDelete ==
    \/ \E u \in Users, v \in Users, t \in Times : SendMessage(u, v, "c1", t)
    \/ \E u \in Users, i \in MessageIds : DeleteMessage(u, i)
    \/ \E u \in Users, i \in MessageIds, t \in Times : RevealMessages(u, <<i>>, t)
    \/ \E u \in Users, i \in MessageIds, t \in Times : MarkMessagesAsRead(u, <<i>>, t)
    \/ \E u \in Users, v \in Users, n \in 1..MaxLimit, b \in Cursors :
            GetConversationMessages(u, v, n, b)

SpecDelete == InitMessages /\ [][NextDelete]_vars

\* ------------------------------------ specification of the conversation id
\* _get_conversation_id applied to every pair of user id strings.
NextConversationId ==
    \E a \in UidStrings, b \in UidStrings : ConversationIdOf(a, b)

SpecConversationId == Init /\ [][NextConversationId]_vars

\* ------------------------------------- specification of the status resolver
\* determine_location_status applied to every fix and speed, for users with
\* every choice of registered home, work place, school and custom locations,
\* and for a user id without a document.
InitZones ==
    /\ friend_requests = <<>>
    /\ friendships = EmptyBag
    /\ messages = <<>>
    /\ conversations = <<>>
    /\ last = Response("none", None, None, None, None)
    /\ inflight = EmptyBag
    /\ tally = <<>>
    /\ \E home \in {<<>>, AddressAt(0)}, work \in {<<>>, AddressAt(600)},
          school \in {<<>>, AddressAt(1000)} :
            addresses = [uid \in Users |->
                IF uid = Alice
                THEN [home_address |-> home, work_address |-> work,
                      school_address |-> school]
                ELSE NoAddresses]
    /\ address_change_requests = <<>>
    /\ clock = 0
    /\ \E locations \in {<<>>, <<Cafe>>, <<Cafe, Gym>>, <<Gym, Cafe>>} :
            custom_locations = [uid \in Users |-> IF uid = Alice THEN locations ELSE <<>>]
    /\ user_locations = [uid \in Users |-> <<>>]
    /\ location_history = EmptyBag

NextResolver ==
    \E u \in Uids, latitude \in FixLatitudes, speed \in Speeds :
        ResolveStatus(u, latitude, speed)

SpecResolver == InitZones /\ [][NextResolver]_vars

\* ----------------------------------- specification of the location updates
\* update_location and get_current_location of the two users as time passes.
LocationData ==
    [latitude : {150, 3000}, longitude : {Meridian}, speed : {<<>>, <<20>>}]

\* The users' zones at the start: Alice with or without a home and a cafe.
InitLocation ==
    /\ InitZones
    /\ addresses[Alice].work_address = <<>>
    /\ addresses[Alice].school_address = <<>>
    /\ custom_locations[Alice] \in {<<>>, <<Cafe>>}

NextLocation ==
    \/ \E u \in Users, d \in LocationData : UpdateLocation(u, d)
    \/ \E u \in Users : GetCurrentLocation(u)
    \/ \E now \in LocationInstants : Elapse(now)

SpecLocation == InitLocation /\ [][NextLocation]_vars

\* ---------------------------- specification of the locations among friends
\* get_friend_location between two users whose edges are made by requests
\* and their acceptance and ended by blocks, while both report fixes.
NextFriendLocation ==
    \/ \E u \in Users, v \in Users : SendFriendRequest(u, v)
    \/ \E u \in Users, r \in 1..MaxRequests : AcceptFriendRequest(u, r)
    \/ \E u \in Users, v \in Users : BlockUser(u, v)
    \/ \E u \in Users, d \in LocationData : UpdateLocation(u, d)
    \/ \E u \in Users, v \in Users : GetFriendLocation(u, v)

SpecFriendLocation == Init /\ [][NextFriendLocation]_vars

\* ---------------------------------------------- specification of sending
\* send_message under every state of the two directed edges: the calls of the
\* friends service that change an edge, and the sends of both users.
NextSend ==
    \/ \E u \in Users, v \in Uids, c \in Contents, t \in Times : SendMessage(u, v, c, t)
    \/ \E u \in Users, v \in Users, t \in {{}} \cup {{l} : l \in TrustChoices} :
            UpdateFriendship(u, v, t, {})
    \/ \E u \in Users, v \in Users : BlockUser(u, v)
    \/ \E u \in Users, v \in Users : RemoveFriend(u, v)

SpecSend == InitMessages /\ [][NextSend]_vars


\* ------------------------------- specification of the friends service's steps
\* send_friend_request and accept_friend_request as the series of store
\* accesses they are, at most MaxHandlers of them in progress at a time.
NextFriendSteps ==
    \/ \E u \in Users, v \in Users : SendFriendRequestCheck(u, v)
    \/ SendFriendRequestSet
    \/ \E u \in Users, r \in 1..MaxRequests : AcceptFriendRequestGet(u, r)
    \/ AcceptFriendRequestUpdate
    \/ AcceptFriendRequestFirst
    \/ AcceptFriendRequestSecond
    \/ AcceptFriendRequestInterrupted

SpecFriendSteps == Init /\ [][NextFriendSteps]_vars

\* ------------------------------ specification of the messages service's steps
\* mark_messages_as_read as the series of store accesses it is, at most
\* MaxHandlers calls in progress at a time, each for one message id, among
\* sends and deletes. (reveal_messages writes no conversation and no is_read
\* field; it is left to the specification of the messages.)
NextMessageSteps ==
    \/ \E u \in Users, v \in Users, t \in Times : SendMessage(u, v, "c1", t)
    \/ \E u \in Users, i \in MessageIds : DeleteMessage(u, i)
    \/ \E u \in Users, i \in MessageIds, t \in Times : MarkMessagesAsReadBegin(u, <<i>>, t)
    \/ MarkMessagesAsReadGet
    \/ MarkMessagesAsReadUpdate
    \/ MarkMessagesAsReadConversationGet
    \/ MarkMessagesAsReadConversationUpdate

SpecMessageSteps == InitMessages /\ [][NextMessageSteps]_vars

\* ------------------------- specification of the conversation record's writers
\* send_message and mark_messages_as_read as the series of store accesses
\* they are, at most MaxHandlers calls in progress at a time, each mark for
\* one message id.
NextConversationSteps ==
    \/ \E u \in Users, v \in Users : SendMessageSet(u, v, "c1")
    \/ \E t \in Times : SendMessageConversationGet(t)
    \/ SendMessageConversationWrite
    \/ \E u \in Users, i \in MessageIds, t \in Times : MarkMessagesAsReadBegin(u, <<i>>, t)
    \/ MarkMessagesAsReadGet
    \/ MarkMessagesAsReadUpdate
    \/ MarkMessagesAsReadConversationGet
    \/ MarkMessagesAsReadConversationUpdate

SpecConversationSteps == InitMessages /\ [][NextConversationSteps]_vars

\* ------------------------------------------------ specification of the edges
\* The calls that change a friendship document once it exists,
\* update_friendship with every choice of supplied fields, from the empty
\* store or the store of an accepted request.
NextEdges ==
    \/ \E u \in Users, v \in Users,
          t \in {{}} \cup {{l} : l \in TrustChoices},
          n \in {{}} \cup {{k} : k \in Nicknames} : UpdateFriendship(u, v, t, n)
    \/ \E u \in Users, v \in Users : RemoveFriend(u, v)
    \/ \E u \in Users, v \in Users : BlockUser(u, v)

SpecEdges == InitMessages /\ [][NextEdges]_vars

\* -------------------------------------------- specification of the addresses
\* The address operations of one signed-in user as time passes.
NextAddress ==
    \/ \E t \in AddressTypes : GetAddressChangeStatus(Alice, t)
    \/ \E t \in AddressTypes, c \in Coordinates : UpdateAddress(Alice, t, c)
    \/ \E t \in AddressTypes, c \in Coordinates :
            CreateSpecialAddressChangeRequest(Alice, t, c)
    \/ \E now \in Instants : Advance(now)

SpecAddress == Init /\ [][NextAddress]_vars


\* ---------------------------------------------- specification of blocking
\* block_user among the calls that make a pair connected and the two calls
\* whose permission it takes away: requests sent and accepted in both
\* directions, blocks, sends and listings.
NextBlocking ==
    \/ \E u \in Users, v \in Users : SendFriendRequest(u, v)
    \/ \E u \in Users, r \in 1..MaxRequests : AcceptFriendRequest(u, r)
    \/ \E u \in Users, v \in Users : BlockUser(u, v)
    \/ \E u \in Users, v \in Users : SendMessage(u, v, "c1", 1)
    \/ \E u \in Users, v \in Users : GetConversationMessages(u, v, 1, <<>>)

SpecBlocking == Init /\ [][NextBlocking]_vars


\* --------------------------------- specification of answering a request
\* reject_friend_request up to and including its checks of the request read.
RejectFriendRequestGet(user_id, request_id) ==
    LET outcome == RespondOutcome(user_id, request_id) IN
    /\ BagCardinality(inflight) < MaxHandlers
    /\ IF outcome = "ok"
       THEN /\ inflight' = inflight (+) SetToBag({
                    [op |-> "reject_friend_request", user |-> user_id,
                     request_id |-> request_id, pc |-> "update",
                     request_data |-> friend_requests[request_id]]})
            /\ UNCHANGED last
       ELSE /\ last' = Response("reject_friend_request", user_id, request_id,
                                outcome, None)
            /\ UNCHANGED inflight
    /\ UNCHANGED <<friend_requests, friendships, messages, conversations, tally>>
    /\ UNCHANGED address_vars
    /\ UNCHANGED location_vars

\* reject_friend_request: request_ref.update and the return.
RejectFriendRequestUpdate ==
    \E p \in BagToSet(inflight) :
        /\ p.op = "reject_friend_request" /\ p.pc = "update"
        /\ friend_requests' = [friend_requests EXCEPT ![p.request_id].status = "rejected"]
        /\ last' = Response("reject_friend_request", p.user, p.request_id, "ok", None)
        /\ inflight' = Return(p)
        /\ UNCHANGED <<friendships, messages, conversations, tally>>
    /\ UNCHANGED address_vars
    /\ UNCHANGED location_vars

\* accept_friend_request and reject_friend_request as the series of store
\* accesses they are, at most MaxHandlers of them in progress at a time, on
\* the requests that send_friend_request has stored.
NextRespondSteps ==
    \/ \E u \in Users, v \in Users : SendFriendRequest(u, v)
    \/ \E u \in Users, r \in 1..MaxRequests : AcceptFriendRequestGet(u, r)
    \/ AcceptFriendRequestUpdate
    \/ AcceptFriendRequestFirst
    \/ AcceptFriendRequestSecond
    \/ \E u \in Users, r \in 1..MaxRequests : RejectFriendRequestGet(u, r)
    \/ RejectFriendRequestUpdate

SpecRespondSteps == Init /\ [][NextRespondSteps]_vars


\* ------------------------------- specification of the address update's steps
\* update_address up to and including can_change_address, which reads the
\* user document and the clock.
UpdateAddressCheck(uid, address_type, address_data) ==
    /\ BagCardinality(inflight) < MaxHandlers
    /\ IF ~CanChangeAddress(uid, address_type, clock)
       THEN /\ last' = Response("update_address", uid, <<address_type, address_data>>,
                                "locked",
                                LOCATION_CHANGE_LOCK_DAYS
                                    - DaysSinceChange(AddressOf(addresses[uid], address_type),
                                                      clock))
            /\ UNCHANGED inflight
       ELSE /\ inflight' = inflight (+) SetToBag({
                    [op |-> "update_address", user |-> uid,
                     address_type |-> address_type, address_data |-> address_data,
                     pc |-> "update"]})
            /\ UNCHANGED last
    /\ UNCHANGED <<friend_requests, friendships, messages, conversations, tally>>
    /\ UNCHANGED address_vars
    /\ UNCHANGED location_vars

\* update_address from the new Address on: the clock is read, user_ref.update
\* writes the field, and the call returns.
UpdateAddressWrite ==
    \E p \in BagToSet(inflight) :
        /\ p.op = "update_address"
        /\ addresses' = [addresses EXCEPT ![p.user] =
                WithAddress(@, p.address_type, NewAddress(p.address_data, clock))]
        /\ last' = Response("update_address", p.user, <<p.address_type, p.address_data>>,
                            "ok", None)
        /\ inflight' = Return(p)
        /\ UNCHANGED <<friend_requests, friendships, messages, conversations, tally>>
        /\ UNCHANGED <<address_change_requests, clock>>
    /\ UNCHANGED location_vars

\* The update_address calls of one signed-in user, at most MaxHandlers of
\* them in progress at a time, as time passes.
NextAddressSteps ==
    \/ \E t \in AddressTypes, c \in Coordinates : UpdateAddressCheck(Alice, t, c)
    \/ UpdateAddressWrite
    \/ \E now \in Instants : Advance(now)

SpecAddressSteps == Init /\ [][NextAddressSteps]_vars


\* ------------------------------------ users service: custom locations
\* Each of the three handlers reads the user document, computes the new
\* custom_locations list from the copy it read and writes the list whole with
\* user_ref.update; a handler between its read and its write is a record of
\* inflight holding the list it is about to write. The user document a
\* handler reads back and returns after its write is not part of the model.
\* A location_index is 0-based, as in the code.
MaxCustomLocations == 10

\* add_custom_location without the test of the number of custom locations.
AddCustomLocationGetUnlimited(uid, location) ==
    /\ BagCardinality(inflight) < MaxHandlers
    /\ IF GetUserByUid(uid) = None
       THEN /\ last' = Response("add_custom_location", uid, location, "user_not_found", None)
            /\ UNCHANGED inflight
       ELSE /\ inflight' = inflight (+) SetToBag({
                    [op |-> "add_custom_location", user |-> uid, pc |-> "update",
                     custom_locations |-> Append(custom_locations[uid], location)]})
            /\ UNCHANGED last
    /\ UNCHANGED <<friend_requests, friendships, messages, conversations, tally>>
    /\ UNCHANGED address_vars
    /\ UNCHANGED location_vars

\* add_custom_location up to and including the test of the number of custom
\* locations of the user document read.
AddCustomLocationGet(uid, location) ==
    /\ BagCardinality(inflight) < MaxHandlers
    /\ IF GetUserByUid(uid) = None
       THEN /\ last' = Response("add_custom_location", uid, location, "user_not_found", None)
            /\ UNCHANGED inflight
       ELSE IF Len(custom_locations[uid]) >= MaxCustomLocations
       THEN /\ last' = Response("add_custom_location", uid, location, "limit", None)
            /\ UNCHANGED inflight
       ELSE /\ inflight' = inflight (+) SetToBag({
                    [op |-> "add_custom_location", user |-> uid, pc |-> "update",
                     custom_locations |-> Append(custom_locations[uid], location)]})
            /\ UNCHANGED last
    /\ UNCHANGED <<friend_requests, friendships, messages, conversations, tally>>
    /\ UNCHANGED address_vars
    /\ UNCHANGED location_vars

\* existing_location.model_copy(update=update_dict): the fields that the
\* update supplies replace those of the existing location.
ModelCopy(existing_location, location) ==
    IF location.radius_meters = <<>> THEN existing_location
    ELSE [existing_location EXCEPT !.radius_meters = location.radius_meters]

\* update_custom_location up to and including the test of the index.
UpdateCustomLocationGet(uid, location_index, location) ==
    /\ BagCardinality(inflight) < MaxHandlers
    /\ IF GetUserByUid(uid) = None
       THEN /\ last' = Response("update_custom_location", uid, location_index,
                                "user_not_found", None)
            /\ UNCHANGED inflight
       ELSE IF location_index < 0 \/ location_index >= Len(custom_locations[uid])
       THEN /\ last' = Response("update_custom_location", uid, location_index,
                                "invalid_index", None)
            /\ UNCHANGED inflight
       ELSE /\ inflight' = inflight (+) SetToBag({
                    [op |-> "update_custom_location", user |-> uid, pc |-> "update",
                     custom_locations |->
                        [custom_locations[uid] EXCEPT ![location_index + 1] =
                            ModelCopy(@, location)]]})
            /\ UNCHANGED last
    /\ UNCHANGED <<friend_requests, friendships, messages, conversations, tally>>
    /\ UNCHANGED address_vars
    /\ UNCHANGED location_vars

\* list.pop(location_index)
Pop(locations, location_index) ==
    [i \in 1..(Len(locations) - 1) |->
        IF i <= location_index THEN locations[i] ELSE locations[i + 1]]

\* delete_custom_location up to and including the test of the index.
DeleteCustomLocationGet(uid, location_index) ==
    /\ BagCardinality(inflight) < MaxHandlers
    /\ IF GetUserByUid(uid) = None
       THEN /\ last' = Response("delete_custom_location", uid, location_index,
                                "user_not_found", None)
            /\ UNCHANGED inflight
       ELSE IF location_index < 0 \/ location_index >= Len(custom_locations[uid])
       THEN /\ last' = Response("delete_custom_location", uid, location_index,
                                "invalid_index", None)
            /\ UNCHANGED inflight
       ELSE /\ inflight' = inflight (+) SetToBag({
                    [op |-> "delete_custom_location", user |-> uid, pc |-> "update",
                     custom_locations |-> Pop(custom_locations[uid], location_index)]})
            /\ UNCHANGED last
    /\ UNCHANGED <<friend_requests, friendships, messages, conversations, tally>>
    /\ UNCHANGED address_vars
    /\ UNCHANGED location_vars

\* user_ref.update of add_custom_location, update_custom_location and
\* delete_custom_location, and the return of the handler.
CustomLocationsUpdate ==
    \E p \in BagToSet(inflight) :
        /\ p.op \in {"add_custom_location", "update_custom_location",
                     "delete_custom_location"}
        /\ custom_locations' = [custom_locations EXCEPT ![p.user] = p.custom_locations]
        /\ last' = Response(p.op, p.user, None, "ok", None)
        /\ inflight' = Return(p)
        /\ UNCHANGED <<friend_requests, friendships, messages, conversations, tally>>
        /\ UNCHANGED <<user_locations, location_history>>
    /\ UNCHANGED address_vars

\* The custom location requests of one signed-in user, at most MaxHandlers
\* of them in progress at a time: adds of one place, updates of the radius
\* of the first place, deletes of the first place, of the last place of a
\* full list and of index MaxCustomLocations, which no list has.
NextCustomLocations ==
    \/ AddCustomLocationGet(Alice, Gym)
    \/ UpdateCustomLocationGet(Alice, 0, [radius_meters |-> <<50>>])
    \/ \E i \in {0, MaxCustomLocations - 1, MaxCustomLocations} :
            DeleteCustomLocationGet(Alice, i)
    \/ CustomLocationsUpdate

SpecCustomLocations == Init /\ [][NextCustomLocations]_vars


\* ------------------------------------------- specification of the distance
\* calculate_distance on the points whose coordinates are whole quarter
\* turns, where the haversine formula has exact values: sin(x / 2) ** 2 is 0,
\* 1/2 or 1 and cos(x) is 0 or 1. The halves are avoided by computing 2 * a.
QuarterLatitudes == {-90, 0, 90}
QuarterLongitudes == {-180, -90, 0, 90, 180}

\* The radius of the earth, in metres.
R == 6371000

\* 2 * math.sin(math.radians(delta) / 2) ** 2 for delta a multiple of 90.
SinHalfSquaredTwice(delta) ==
    CASE delta % 360 = 0 -> 0
      [] delta % 360 = 90 -> 1
      [] delta % 360 = 180 -> 2
      [] delta % 360 = 270 -> 1

\* math.cos(math.radians(lat)) for lat in -90, 0 and 90.
Cos(lat) ==
    IF lat = 0 THEN 1 ELSE 0

\* calculate_distance with the product of the cosine of lat1 with itself.
HaversineOfFirstLatitude(lat1, lon1, lat2, lon2) ==
    LET delta_lat == lat2 - lat1
        delta_lon == lon2 - lon1
        twice_a == SinHalfSquaredTwice(delta_lat)
                   + Cos(lat1) * Cos(lat1) * SinHalfSquaredTwice(delta_lon)
    IN (R * 11 * twice_a) \div 7

\* calculate_distance. c = 2 * atan2(sqrt(a), sqrt(1 - a)) is 0, a quarter
\* turn or a half turn for a = 0, 1/2, 1, that is twice_a quarter turns, and
\* a quarter turn is pi / 2 radians, taken as 11/7.
Haversine(lat1, lon1, lat2, lon2) ==
    LET delta_lat == lat2 - lat1
        delta_lon == lon2 - lon1
        twice_a == SinHalfSquaredTwice(delta_lat)
                   + Cos(lat1) * Cos(lat2) * SinHalfSquaredTwice(delta_lon)
    IN (R * 11 * twice_a) \div 7

Measure(lat1, lon1, lat2, lon2) ==
    /\ last' = Response("calculate_distance", None, <<lat1, lon1, lat2, lon2>>, "ok",
                        Haversine(lat1, lon1, lat2, lon2))
    /\ UNCHANGED social_vars
    /\ UNCHANGED address_vars
    /\ UNCHANGED location_vars

NextDistance ==
    \E lat1 \in QuarterLatitudes, lon1 \in QuarterLongitudes,
       lat2 \in QuarterLatitudes, lon2 \in QuarterLongitudes :
        Measure(lat1, lon1, lat2, lon2)

SpecDistance == Init /\ [][NextDistance]_vars


\* ---------------------------------------------------------------- API layer
\* A route calls its service and turns the result into an HTTP response: the
\* response is a function of the service's response, which is the record the
\* service's action leaves in last.
HTTP_200_OK == 200
HTTP_201_CREATED == 201
HTTP_204_NO_CONTENT == 204
HTTP_400_BAD_REQUEST == 400
HTTP_403_FORBIDDEN == 403
HTTP_404_NOT_FOUND == 404

\* The status code of the routes of api/v1/messages.py: each route catches the
\* ValueError of its service call and raises an HTTPException.
MessagesRouteStatus(response) ==
    LET raised == response.outcome # "ok" IN
    CASE response.op = "send_message" ->
            IF raised THEN HTTP_400_BAD_REQUEST ELSE HTTP_201_CREATED
      [] response.op = "get_conversation_messages" ->
            IF raised THEN HTTP_400_BAD_REQUEST ELSE HTTP_200_OK
      [] response.op = "reveal_messages" ->
            IF raised THEN HTTP_403_FORBIDDEN ELSE HTTP_200_OK
      [] response.op = "mark_messages_as_read" ->
            IF raised THEN HTTP_403_FORBIDDEN ELSE HTTP_200_OK
      [] response.op = "delete_message" ->
            IF raised THEN HTTP_400_BAD_REQUEST ELSE HTTP_204_NO_CONTENT

\* The status code of the route get_friend_location of api/v1/locations.py.
LocationsRouteStatus(response) ==
    IF response.outcome # "ok" THEN HTTP_403_FORBIDDEN
    ELSE IF response.value = <<>> THEN HTTP_404_NOT_FOUND
    ELSE HTTP_200_OK

\* has_more of the route get_conversation_messages, computed for every page
\* that holds a message.
HasMoreOfAnyPage(returned, limit) ==
    Len(returned) > 0

\* has_more of the route get_conversation_messages.
HasMore(returned, limit) ==
    Len(returned) = limit

\* The body of the route get_conversation_messages on success: the list the
\* service returned, its length and has_more.
MessageListResponse(response) ==
    [messages |-> response.value,
     total |-> Len(response.value),
     has_more |-> HasMore(response.value, response.arg[2])]


\* =================================================================== claims
\* The trust levels of the active edges owner -> peer, read off the store.
EdgeLevels(owner, peer) ==
    {e.trust_level : e \in {d \in BagToSet(friendships) :
        d.user_id = owner /\ d.friend_id = peer /\ d.status = "active"}}

\* The conversation key of Alice and Bob: Alice's id sorts first.
AliceBob == Alice \o <<Separator>> \o Bob

\* C1: a send fails, creating no message and changing no conversation, when
\* sender = recipient, the recipient has no account, no active sender ->
\* recipient edge exists or every such edge has trust level below 2; it
\* succeeds when the recipient has an account and the active sender ->
\* recipient edges have trust level 2 or more, whatever the reverse edge is.
SendNeedsTrust ==
    [][last'.op = "send_message" =>
        LET s == last'.user
            r == last'.arg[1]
        IN
        /\ (\/ s = r
            \/ r \notin Users
            \/ \A l \in EdgeLevels(s, r) : l < 2)
           => /\ last'.outcome # "ok"
              /\ messages' = messages
              /\ conversations' = conversations
        /\ (/\ r \in Users
            /\ EdgeLevels(s, r) # {}
            /\ \A l \in EdgeLevels(s, r) : l >= 2)
           => /\ last'.outcome = "ok"
              /\ Len(messages') = Len(messages) + 1
              /\ messages'[Len(messages')].sender_id = s
              /\ messages'[Len(messages')].recipient_id = r
        /\ last'.outcome # "ok"
           => messages' = messages /\ conversations' = conversations]_vars

\* A send has succeeded although no active edge recipient -> sender exists.
SentWithoutReverseEdge ==
    /\ last.op = "send_message"
    /\ last.outcome = "ok"
    /\ EdgeLevels(last.arg[1], last.user) = {}
    /\ EdgeLevels(last.user, last.arg[1]) # {}

\* C4: a successful send creates exactly one message, in state sent; a new
\* conversation gets unread counts 0 for the sender and 1 for the recipient,
\* an existing one gets the recipient's count raised by one, the sender's
\* count kept, and in both cases the last-message summary of the new message.
SendCreatesSentMessage ==
    [][(last'.op = "send_message" /\ last'.outcome = "ok") =>
        LET s == last'.user
            r == last'.arg[1]
            c == last'.arg[2]
            m == messages'[Len(messages')]
            k == AliceBob
        IN
        /\ Len(messages') = Len(messages) + 1
        /\ \A i \in 1..Len(messages) : messages'[i] = messages[i]
        /\ m.sender_id = s /\ m.recipient_id = r /\ m.content = c
        /\ m.conversation_id = k
        /\ ~m.is_visible_to_recipient /\ ~m.is_read
        /\ m.revealed_at = <<>> /\ m.read_at = <<>>
        /\ DOMAIN conversations' = {k}
        /\ conversations'[k].last_message_sender_id = s
        /\ conversations'[k].last_message_content = c
        /\ conversations'[k].last_message_at \in Times
        /\ IF k \in DOMAIN conversations
           THEN /\ conversations'[k].unread_counts[r] =
                        conversations[k].unread_counts[r] + 1
                /\ conversations'[k].unread_counts[s] =
                        conversations[k].unread_counts[s]
                /\ conversations'[k].participant_ids = conversations[k].participant_ids
                /\ conversations'[k].last_message_at >= conversations[k].last_message_at
           ELSE /\ conversations'[k].unread_counts[r] = 1
                /\ conversations'[k].unread_counts[s] = 0
                /\ conversations'[k].participant_ids = <<s, r>>]_vars

\* A send has succeeded into an existing conversation in which the sender
\* itself had an unread message and the summary named the other user.
SentIntoExistingConversation ==
    /\ last.op = "send_message"
    /\ last.outcome = "ok"
    /\ last.value = 2
    /\ messages[1].sender_id = last.arg[1]
    /\ messages[1].content # last.arg[2]
    /\ conversations[AliceBob].unread_counts[last.user] = 1
    /\ conversations[AliceBob].unread_counts[last.arg[1]] = 1

\* The ids of a batch call's list.
Ids(list) == {list[k] : k \in 1..Len(list)}

\* C2: in every conversation, a user's unread count is the number of messages
\* sent to the user minus the number the user's completed mark-as-read calls
\* newly marked read; a reveal changes no unread count, and a completed
\* mark-as-read lowers the caller's count of each conversation by exactly the
\* number of messages it newly marked read there, and no other count.
UnreadIsSentMinusMarked ==
    /\ [](\A k \in DOMAIN conversations :
            \A u \in DOMAIN conversations[k].unread_counts :
                /\ <<k, u>> \in DOMAIN tally =>
                    conversations[k].unread_counts[u] = tally[<<k, u>>].sent - tally[<<k, u>>].marked
                /\ <<k, u>> \notin DOMAIN tally => conversations[k].unread_counts[u] = 0)
    /\ [][/\ last'.op = "reveal_messages" => conversations' = conversations
          /\ (last'.op = "mark_messages_as_read" /\ last'.outcome = "ok") =>
                /\ DOMAIN conversations' = DOMAIN conversations
                /\ \A k \in DOMAIN conversations :
                    \A u \in DOMAIN conversations[k].unread_counts :
                        conversations'[k].unread_counts[u] =
                            conversations[k].unread_counts[u]
                            - (IF u = last'.user
                               THEN Cardinality({i \in Ids(last'.arg) :
                                        /\ i \in 1..Len(messages)
                                        /\ messages[i] # Deleted
                                        /\ messages[i].conversation_id = k
                                        /\ ~messages[i].is_read})
                               ELSE 0)]_vars

\* Two messages were sent to a user, who revealed one of them (count still 2)
\* and has now marked one read: the count is 1.
MarkedOneOfTwo ==
    /\ last.op = "mark_messages_as_read"
    /\ last.outcome = "ok"
    /\ last.value = 1
    /\ tally[<<AliceBob, last.user>>].sent = 2
    /\ tally[<<AliceBob, last.user>>].marked = 1
    /\ conversations[AliceBob].unread_counts[last.user] = 1
    /\ \E i \in 1..Len(messages) :
        messages[i] # Deleted /\ messages[i].is_visible_to_recipient /\ ~messages[i].is_read

\* C6: a deleted message stays deleted; an existing message changes only by a
\* reveal or a mark-as-read, which set is_visible_to_recipient with revealed_at,
\* or is_read with read_at, and touch nothing else, so that a flag never falls
\* back to false and a timestamp never to null; and it is removed only by a
\* delete_message call of its sender.
MessageFlagsMonotonic ==
    [][/\ Len(messages') >= Len(messages)
       /\ \A i \in 1..Len(messages) :
            /\ messages[i] = Deleted => messages'[i] = Deleted
            /\ (messages[i] # Deleted /\ messages'[i] = Deleted) =>
                /\ last'.op = "delete_message"
                /\ last'.arg = i
                /\ last'.user = messages[i].sender_id
            /\ (messages[i] # Deleted /\ messages'[i] # Deleted /\ messages'[i] # messages[i]) =>
                /\ last'.op \in {"reveal_messages", "mark_messages_as_read"}
                /\ messages'[i].sender_id = messages[i].sender_id
                /\ messages'[i].recipient_id = messages[i].recipient_id
                /\ messages'[i].conversation_id = messages[i].conversation_id
                /\ messages'[i].content = messages[i].content
                /\ messages[i].is_visible_to_recipient => messages'[i].is_visible_to_recipient
                /\ messages[i].is_read => messages'[i].is_read
                /\ messages[i].revealed_at # <<>> => messages'[i].revealed_at = messages[i].revealed_at
                /\ messages[i].read_at # <<>> => messages'[i].read_at = messages[i].read_at
                /\ messages'[i].is_visible_to_recipient <=> messages'[i].revealed_at # <<>>
                /\ messages'[i].is_read <=> messages'[i].read_at # <<>>
                /\ last'.op = "reveal_messages" =>
                    /\ messages'[i].is_read = messages[i].is_read
                    /\ messages'[i].read_at = messages[i].read_at
                /\ last'.op = "mark_messages_as_read" =>
                    /\ messages'[i].is_visible_to_recipient = messages[i].is_visible_to_recipient
                    /\ messages'[i].revealed_at = messages[i].revealed_at]_vars

\* A message revealed at time 1 and read at time 2 is still so after its
\* sender deleted the other message.
RevealedReadAndKept ==
    /\ last.op = "delete_message"
    /\ last.outcome = "ok"
    /\ \E i \in 1..Len(messages) :
        /\ messages[i] # Deleted
        /\ messages[i].is_visible_to_recipient /\ messages[i].revealed_at = <<1>>
        /\ messages[i].is_read /\ messages[i].read_at = <<2>>

\* C7: a reveal by the recipient of messages that are all revealed already, and
\* a mark-as-read by the recipient of messages that are all read already,
\* return 0 and change no message and no conversation.
RepeatedTransitionIsNoOp ==
    [][/\ (/\ last'.op = "reveal_messages"
           /\ \A i \in Ids(last'.arg) :
                /\ i \in 1..Len(messages) /\ messages[i] # Deleted
                /\ messages[i].recipient_id = last'.user
                /\ messages[i].is_visible_to_recipient)
          => /\ last'.outcome = "ok" /\ last'.value = 0
             /\ messages' = messages /\ conversations' = conversations
       /\ (/\ last'.op = "mark_messages_as_read"
           /\ \A i \in Ids(last'.arg) :
                /\ i \in 1..Len(messages) /\ messages[i] # Deleted
                /\ messages[i].recipient_id = last'.user
                /\ messages[i].is_read)
          => /\ last'.outcome = "ok" /\ last'.value = 0
             /\ messages' = messages /\ conversations' = conversations]_vars

\* A mark-as-read at a later time of two messages revealed and read before.
MarkedAgain ==
    /\ last.op = "mark_messages_as_read"
    /\ last.outcome = "ok"
    /\ last.value = 0
    /\ Len(last.arg) = 2 /\ last.arg[1] # last.arg[2]
    /\ \A i \in Ids(last.arg) :
        /\ i \in 1..Len(messages) /\ messages[i] # Deleted
        /\ messages[i].recipient_id = last.user
        /\ messages[i].is_visible_to_recipient
        /\ messages[i].is_read
    /\ conversations[AliceBob].unread_counts[last.user] = 0

\* The page a listing queries: the conversation's messages older than the
\* cursor (all of them without a cursor), the newest `limit` of these.
PageOf(limit, cursor) ==
    LET older == {i \in 1..Len(messages) :
                    /\ messages[i] # Deleted
                    /\ messages[i].conversation_id = AliceBob
                    /\ (cursor # <<>> /\ cursor[1] \in 1..Len(messages)
                        /\ messages[cursor[1]] # Deleted) => i < cursor[1]}
    IN {i \in older : Cardinality({j \in older : j > i}) < limit}

\* C5: the list a successful listing returns holds no message addressed to the
\* viewer that the viewer has not revealed, holds every message of the queried
\* page that the viewer sent, revealed by its recipient or not, holds only
\* messages of that page, and is ordered oldest first.
ListingHidesUnrevealed ==
    (last.op = "get_conversation_messages" /\ last.outcome = "ok") =>
        LET viewer == last.user
            page == PageOf(last.arg[2], last.arg[3])
            result == last.value
        IN
        /\ \A k \in 1..Len(result) :
            /\ result[k] \in page
            /\ ~(/\ messages[result[k]].recipient_id = viewer
                 /\ ~messages[result[k]].is_visible_to_recipient)
        /\ \A i \in page : messages[i].sender_id = viewer => i \in Ids(result)
        /\ \A k \in 1..Len(result) - 1 : result[k] < result[k + 1]

\* A listing returned the viewer's own unrevealed message and withheld the
\* unrevealed message addressed to the viewer.
ListedOwnUnrevealedOnly ==
    /\ last.op = "get_conversation_messages"
    /\ last.outcome = "ok"
    /\ last.arg[2] = 2 /\ last.arg[3] = <<>>
    /\ Len(messages) = 2
    /\ messages[1] # Deleted /\ messages[2] # Deleted
    /\ messages[1].recipient_id = last.user /\ ~messages[1].is_visible_to_recipient
    /\ messages[2].sender_id = last.user /\ ~messages[2].is_visible_to_recipient
    /\ last.value = <<2>>

\* The friendship documents owner -> peer, whatever their status.
Edges(owner, peer) ==
    {d \in BagToSet(friendships) : d.user_id = owner /\ d.friend_id = peer}

\* C8: after accept_friend_request succeeds the request is accepted, both
\* directed edges of its pair are active at trust level 2, and get_trust_level
\* returns 2 in both directions.
AcceptGivesBothTrustFriend ==
    [][(last'.op = "accept_friend_request" /\ last'.outcome = "ok") =>
        LET r == friend_requests'[last'.arg] IN
        /\ r.status = "accepted"
        /\ Friendship(r.from_user_id, r.to_user_id, FRIEND) \in BagToSet(friendships')
        /\ Friendship(r.to_user_id, r.from_user_id, FRIEND) \in BagToSet(friendships')
        /\ {e.trust_level : e \in {d \in BagToSet(friendships') :
                /\ d.user_id = r.from_user_id /\ d.friend_id = r.to_user_id
                /\ d.status = "active"}} = {FRIEND}
        /\ {e.trust_level : e \in {d \in BagToSet(friendships') :
                /\ d.user_id = r.to_user_id /\ d.friend_id = r.from_user_id
                /\ d.status = "active"}} = {FRIEND}]_vars

\* C9: whenever no accept_friend_request is in progress, having completed or
\* having been interrupted, every accepted request has both directed edges
\* of its pair persisted, and no pair has exactly one of its two edges.
AcceptIsAllOrNothing ==
    (\A p \in BagToSet(inflight) : p.op # "accept_friend_request") =>
        /\ \A i \in 1..Len(friend_requests) :
            friend_requests[i].status = "accepted" =>
                /\ Edges(friend_requests[i].from_user_id, friend_requests[i].to_user_id) # {}
                /\ Edges(friend_requests[i].to_user_id, friend_requests[i].from_user_id) # {}
        /\ \A u \in Users, v \in Users : (Edges(u, v) = {}) <=> (Edges(v, u) = {})

\* C10: no ordered pair has more than one pending request, whatever the
\* interleaving of the reads and writes of send_friend_request calls.
OnePendingPerPair ==
    \A u \in Users, v \in Users : Cardinality(PendingRequests(u, v)) <= 1

\* C3: every unread count of every conversation is an integer >= 0, after any
\* sequence of sends, reveals, reads and deletes, the reads of concurrent
\* calls interleaved access by access.
UnreadNeverNegative ==
    \A c \in DOMAIN conversations :
        \A u \in DOMAIN conversations[c].unread_counts :
            conversations[c].unread_counts[u] \in Nat

\* Two calls marked the same message read, and the second to finish found the
\* count at zero already.
MarkedTwiceAtZero ==
    /\ last.op = "mark_messages_as_read" /\ last.outcome = "ok" /\ last.value = 1
    /\ inflight = EmptyBag
    /\ AliceBob \in DOMAIN conversations
    /\ conversations[AliceBob].unread_counts[last.user] = 0
    /\ <<AliceBob, last.user>> \in DOMAIN tally
    /\ tally[<<AliceBob, last.user>>].marked > tally[<<AliceBob, last.user>>].sent

\* C11: send_friend_request stores no request exactly when from = to, the
\* addressee has no account, both directed edges of the pair exist or a
\* pending request from -> to exists; in every other case it stores exactly
\* one new pending request. It never creates an edge.
SendRequestRefusedExactlyWhen ==
    [][last'.op = "send_friend_request" =>
        LET from == last'.user
            to == last'.arg
            refused ==
                \/ from = to
                \/ to \notin Users
                \/ Edges(from, to) # {} /\ Edges(to, from) # {}
                \/ PendingRequests(from, to) # {}
        IN
        /\ friendships' = friendships
        /\ IF refused
           THEN last'.outcome # "ok" /\ friend_requests' = friend_requests
           ELSE /\ last'.outcome = "ok"
                /\ friend_requests' = Append(friend_requests,
                        [from_user_id |-> from, to_user_id |-> to, status |-> "pending"])]_vars

\* C12: accept_friend_request and reject_friend_request fail when the request
\* does not exist, is addressed to someone else or is not pending, and then
\* change no request and no edge; a request that is accepted or rejected is
\* the same after every later step.
RespondRefusedLeavesLedger ==
    [][/\ last'.op \in {"accept_friend_request", "reject_friend_request"} =>
            LET refused ==
                    \/ last'.arg \notin 1..Len(friend_requests)
                    \/ friend_requests[last'.arg].to_user_id # last'.user
                    \/ friend_requests[last'.arg].status # "pending"
            IN
            /\ refused <=> last'.outcome # "ok"
            /\ refused => friend_requests' = friend_requests /\ friendships' = friendships
       /\ \A i \in 1..Len(friend_requests) :
            friend_requests[i].status # "pending" =>
                friend_requests'[i] = friend_requests[i]]_vars

\* The addressee tried to accept a request they had rejected, and was refused.
AcceptOfRejectedRefused ==
    /\ last.op = "accept_friend_request"
    /\ last.outcome = "already_processed"
    /\ friend_requests[last.arg].status = "rejected"
    /\ friend_requests[last.arg].to_user_id = last.user
    /\ friendships = EmptyBag

\* The active documents owner -> peer in a friendships collection.
ActiveIn(store, owner, peer) ==
    {d \in BagToSet(store) :
        d.user_id = owner /\ d.friend_id = peer /\ d.status = "active"}

\* C13: remove_friend fails exactly when no active edge exists in either
\* direction, and then changes nothing; when it succeeds, get_trust_level is
\* null afterwards in both directions.
RemoveLeavesNoTrustLevel ==
    [][last'.op = "remove_friend" =>
        LET owner == last'.user
            peer == last'.arg
            neither == /\ ActiveIn(friendships, owner, peer) = {}
                       /\ ActiveIn(friendships, peer, owner) = {}
        IN
        /\ neither <=> last'.outcome # "ok"
        /\ neither => friendships' = friendships
        /\ ~neither => /\ ActiveIn(friendships', owner, peer) = {}
                       /\ ActiveIn(friendships', peer, owner) = {}]_vars

\* C14: after a successful remove_friend(owner, peer) on a connected pair the
\* peer -> owner documents are the ones there were before, unchanged.
RemoveKeepsPeerEdge ==
    [][(/\ last'.op = "remove_friend" /\ last'.outcome = "ok"
        /\ ActiveIn(friendships, last'.user, last'.arg) # {}
        /\ ActiveIn(friendships, last'.arg, last'.user) # {}) =>
            \A d \in BagToSet(friendships) \cup BagToSet(friendships') :
                (d.user_id = last'.arg /\ d.friend_id = last'.user) =>
                    CopiesIn(d, friendships') = CopiesIn(d, friendships)]_vars

\* C15: block_user never fails; with an active owner -> peer edge it sets
\* that edge's status to blocked and nothing else, and get_trust_level(owner,
\* peer) is null afterwards; with none it changes nothing.
BlockEndsTrustLevel ==
    [][last'.op = "block_user" =>
        LET owner == last'.user
            peer == last'.arg
        IN
        /\ last'.outcome = "ok"
        /\ IF ActiveIn(friendships, owner, peer) = {}
           THEN friendships' = friendships
           ELSE /\ \E e \in ActiveIn(friendships, owner, peer) :
                    friendships' = Replace(friendships, e, [e EXCEPT !.status = "blocked"])
                /\ ActiveIn(friendships', owner, peer) = {}]_vars

\* C16: update_friendship fails, changing nothing, when no active owner ->
\* peer edge exists; otherwise it replaces one active owner -> peer document
\* by itself with the supplied fields set, and every other document, the
\* peer -> owner ones among them, stays as it was.
UpdateChangesSuppliedFieldsOnly ==
    [][last'.op = "update_friendship" =>
        LET owner == last'.user
            peer == last'.arg[1]
            trust_level == last'.arg[2]
            nickname == last'.arg[3]
        IN
        IF ActiveIn(friendships, owner, peer) = {}
        THEN last'.outcome # "ok" /\ friendships' = friendships
        ELSE /\ last'.outcome = "ok"
             /\ \E e \in ActiveIn(friendships, owner, peer) :
                \E new \in [user_id : {e.user_id}, friend_id : {e.friend_id},
                            status : {e.status},
                            trust_level : IF trust_level = {} THEN {e.trust_level}
                                          ELSE trust_level,
                            nickname : IF nickname = {} THEN {e.nickname}
                                       ELSE {<<k>> : k \in nickname}] :
                    friendships' = Replace(friendships, e, new)
             /\ \A d \in BagToSet(friendships) \cup BagToSet(friendships') :
                    (d.user_id = peer /\ d.friend_id = owner) =>
                        CopiesIn(d, friendships') = CopiesIn(d, friendships)]_vars

\* An update of the nickname alone left the owner's edge at the trust level an
\* earlier update gave it, different from the level of the peer's edge.
DirectionsDiffer ==
    /\ last.op = "update_friendship" /\ last.outcome = "ok"
    /\ last.arg[2] = {} /\ last.arg[3] # {}
    /\ \E e \in ActiveIn(friendships, last.user, last.arg[1]) :
        /\ e.trust_level = 3 /\ e.nickname # Null
        /\ \E f \in ActiveIn(friendships, last.arg[1], last.user) :
            f.trust_level = 2 /\ f.nickname = Null

\* The address of a type in a user document: the field named after the type.
Registered(user, address_type) ==
    CASE address_type = "home" -> user.home_address
      [] address_type = "work" -> user.work_address
      [] address_type = "school" -> user.school_address

\* Whole days elapsed at time now since the address was last changed.
DaysElapsed(address, now) ==
    (now - address[1].last_changed_at) \div TicksPerDay

\* An address of the type is registered and its lock has not run out.
Locked(user, address_type, now) ==
    /\ Registered(user, address_type) # Null
    /\ DaysElapsed(Registered(user, address_type), now) < LOCATION_CHANGE_LOCK_DAYS

\* C17: for an unregistered address of the requested type can_change is true
\* and days_remaining is null; for a registered one, with d whole days since
\* its last change and L lock days, can_change = (d >= L) and days_remaining
\* = max(0, L - d).
ChangeStatusFollowsElapsedDays ==
    (last.op = "get_address_change_status") =>
        LET address == Registered(addresses[last.user], last.arg) IN
        IF address = Null
        THEN last.value.can_change = TRUE /\ last.value.days_remaining = Null
        ELSE LET d == DaysElapsed(address, clock) IN
             /\ last.value.can_change = (d >= LOCATION_CHANGE_LOCK_DAYS)
             /\ last.value.days_remaining = <<Max(0, LOCATION_CHANGE_LOCK_DAYS - d)>>
             /\ last.value.can_change <=> last.value.days_remaining = <<0>>

\* C18: update_address on a locked address of the type fails, changes no
\* address and reports lock days - days elapsed; a successful update_address
\* stores the address of the type with registered_at = last_changed_at = now,
\* and the address is locked right afterwards.
UpdateHonoursLock ==
    [][last'.op = "update_address" =>
        LET uid == last'.user
            address_type == last'.arg[1]
        IN
        /\ Locked(addresses[uid], address_type, clock) =>
            /\ last'.outcome # "ok"
            /\ addresses' = addresses
            /\ last'.value = LOCATION_CHANGE_LOCK_DAYS
                    - DaysElapsed(Registered(addresses[uid], address_type), clock)
        /\ last'.outcome = "ok" =>
            /\ Registered(addresses'[uid], address_type) =
                    <<[latitude |-> last'.arg[2].latitude,
                       longitude |-> last'.arg[2].longitude,
                       registered_at |-> clock, last_changed_at |-> clock]>>
            /\ Locked(addresses'[uid], address_type, clock')]_vars

\* C19: update_address decides from the address of the requested type alone
\* and writes no address of another type.
UpdateScopedToType ==
    [][last'.op = "update_address" =>
        /\ last'.outcome = "ok" <=> ~Locked(addresses[last'.user], last'.arg[1], clock)
        /\ \A t \in AddressTypes \ {last'.arg[1]} :
            Registered(addresses'[last'.user], t) = Registered(addresses[last'.user], t)
        /\ \A uid \in Users \ {last'.user} : addresses'[uid] = addresses[uid]]_vars

\* C20: create_special_address_change_request succeeds exactly when an
\* address of the type is registered and locked; a failure stores nothing; a
\* success stores one pending request with the requested coordinates and the
\* current coordinates of that type; no address changes.
ExceptionOnlyWhileLocked ==
    [][last'.op = "create_special_address_change_request" =>
        LET uid == last'.user
            address_type == last'.arg[1]
            address == Registered(addresses[uid], address_type)
        IN
        /\ addresses' = addresses
        /\ last'.outcome = "ok" <=> Locked(addresses[uid], address_type, clock)
        /\ last'.outcome # "ok" => address_change_requests' = address_change_requests
        /\ last'.outcome = "ok" =>
            address_change_requests' = Append(address_change_requests,
                [user_id |-> uid, address_type |-> address_type,
                 new_coordinates |-> last'.arg[2],
                 current_coordinates |->
                     <<[latitude |-> address[1].latitude,
                        longitude |-> address[1].longitude]>>,
                 status |-> "pending"])]_vars

\* The messages of the store after that are visible to the recipient and were
\* not in the store before.
NewlyVisible(before, after) ==
    {i \in 1..Len(before) :
        /\ before[i] # Deleted /\ after[i] # Deleted
        /\ ~before[i].is_visible_to_recipient /\ after[i].is_visible_to_recipient}

\* C25: reveal(viewer, ids) skips an id that is missing or already revealed,
\* fails with a permission error at the first other id whose recipient is not
\* the viewer, and otherwise makes the message visible with revealed_at set;
\* on success it returns the number of messages that became visible.
RevealSkipsThenChecksRecipient ==
    [][last'.op = "reveal_messages" =>
        LET viewer == last'.user
            ids == last'.arg
            Skipped(i) ==
                \/ ~Exists(messages, ids[i])
                \/ messages[ids[i]].is_visible_to_recipient
            Refused(i) == ~Skipped(i) /\ messages[ids[i]].recipient_id # viewer
        IN
        /\ last'.outcome = "permission" <=> \E i \in DOMAIN ids : Refused(i)
        /\ last'.outcome \in {"ok", "permission"}
        /\ \A i \in DOMAIN ids :
            (~Skipped(i) /\ \A j \in 1..i : ~Refused(j)) =>
                /\ messages'[ids[i]].is_visible_to_recipient
                /\ messages'[ids[i]].revealed_at # Null
        /\ last'.outcome = "ok" =>
            last'.value = Cardinality(NewlyVisible(messages, messages'))]_vars

\* C26: when reveal or markRead fails with a permission error at list
\* position i, every message named before position i has made its transition
\* (visible with revealed_at, read with read_at) in the store the call leaves,
\* and every other message is as it was.
FailedBatchKeepsEarlierTransitions ==
    [][(/\ last'.op \in {"reveal_messages", "mark_messages_as_read"}
        /\ last'.outcome = "permission") =>
        LET viewer == last'.user
            ids == last'.arg
            Foreign(i) ==
                Exists(messages, ids[i]) /\ messages[ids[i]].recipient_id # viewer
            at == CHOOSE i \in DOMAIN ids : Foreign(i) /\ \A j \in 1..(i - 1) : ~Foreign(j)
            earlier == {ids[j] : j \in 1..(at - 1)}
        IN
        /\ \E i \in DOMAIN ids : Foreign(i)
        /\ \A m \in earlier : Exists(messages, m) =>
            IF last'.op = "reveal_messages"
            THEN /\ messages'[m].is_visible_to_recipient
                 /\ messages'[m].revealed_at # Null
            ELSE /\ messages'[m].is_read
                 /\ messages'[m].read_at # Null
        /\ \A m \in (1..Len(messages)) \ earlier : messages'[m] = messages[m]]_vars

\* Alice's markRead of <<1, 2>> failed at message 2, which is Bob's to read;
\* message 1 is read although no completed call lowered her unread count.
MarkFailedAfterFirstId ==
    /\ last = Response("mark_messages_as_read", Alice, <<1, 2>>, "permission", None)
    /\ Len(messages) = 2
    /\ messages[1] # Deleted /\ messages[1].recipient_id = Alice /\ messages[1].is_read
    /\ messages[2] # Deleted /\ messages[2].recipient_id = Bob
    /\ conversations[GetConversationId(Alice, Bob)].unread_counts[Alice] = 1

\* C27: markRead needs no reveal. A call naming only messages the caller is
\* the recipient of does not fail; a message it names that is unread and not
\* visible becomes read with read_at set and stays not visible, and the
\* caller's unread count of its conversation goes down by the number of
\* messages the call marked there.
MarkReadNeedsNoReveal ==
    [][last'.op = "mark_messages_as_read" =>
        LET viewer == last'.user
            ids == last'.arg
            unrevealed ==
                {m \in {ids[i] : i \in DOMAIN ids} :
                    /\ Exists(messages, m)
                    /\ messages[m].recipient_id = viewer
                    /\ ~messages[m].is_read
                    /\ ~messages[m].is_visible_to_recipient}
        IN
        /\ (\A i \in DOMAIN ids :
                Exists(messages, ids[i]) => messages[ids[i]].recipient_id = viewer)
            => last'.outcome = "ok"
        /\ last'.outcome = "ok" =>
            \A m \in unrevealed :
                LET c == messages[m].conversation_id IN
                /\ messages'[m].is_read
                /\ messages'[m].read_at # Null
                /\ ~messages'[m].is_visible_to_recipient
                /\ conversations'[c].unread_counts[viewer] =
                     conversations[c].unread_counts[viewer]
                        - Cardinality(NewlyRead(messages, messages', c))
                /\ conversations'[c].unread_counts[viewer] <
                     conversations[c].unread_counts[viewer]]_vars

\* Bob's markRead of message 1 succeeded; the message is read, was never
\* revealed, and Bob's unread count is back at zero.
ReadWhileNotVisible ==
    /\ last = Response("mark_messages_as_read", Bob, <<1>>, "ok", 1)
    /\ messages[1] # Deleted
    /\ messages[1].recipient_id = Bob
    /\ messages[1].is_read /\ messages[1].read_at # Null
    /\ ~messages[1].is_visible_to_recipient /\ messages[1].revealed_at = Null
    /\ conversations[GetConversationId(Alice, Bob)].unread_counts[Bob] = 0

\* C28: delete fails and leaves the store unchanged when the message is
\* missing or the caller is not its sender; otherwise the message is gone for
\* good: no listing returns it, and a later reveal or markRead of its id
\* passes over it without an error and without a change.
DeleteIsBySenderAndFinal ==
    [][/\ last'.op = "delete_message" =>
            IF ~Exists(messages, last'.arg) \/ messages[last'.arg].sender_id # last'.user
            THEN last'.outcome # "ok" /\ messages' = messages
            ELSE /\ last'.outcome = "ok"
                 /\ ~Exists(messages', last'.arg)
                 /\ \A m \in (1..Len(messages)) \ {last'.arg} : messages'[m] = messages[m]
       /\ \A m \in 1..Len(messages) : messages[m] = Deleted => messages'[m] = Deleted
       /\ (last'.op = "get_conversation_messages" /\ last'.outcome = "ok") =>
            \A i \in DOMAIN last'.value : Exists(messages', last'.value[i])
       /\ (/\ last'.op \in {"reveal_messages", "mark_messages_as_read"}
           /\ \A i \in DOMAIN last'.arg : ~Exists(messages, last'.arg[i])) =>
            /\ last'.outcome = "ok" /\ last'.value = 0
            /\ messages' = messages /\ conversations' = conversations]_vars

\* Alice deleted the message she sent to Bob, and Bob's reveal of its id then
\* returned 0.
RevealedDeletedId ==
    /\ last = Response("reveal_messages", Bob, <<1>>, "ok", 0)
    /\ Len(messages) >= 1 /\ messages[1] = Deleted
    /\ GetConversationId(Alice, Bob) \in DOMAIN conversations
    /\ conversations[GetConversationId(Alice, Bob)].last_message_sender_id = Alice

\* C30: the conversation id is a faithful key of the unordered pair of
\* participants, whatever characters the ids hold: the id of (a, b) is the id
\* of (b, a), and two calls return the same id only for the same pair.
ConversationIdIsFaithful ==
    [][last'.op = "_get_conversation_id" =>
        /\ last'.value = GetConversationId(last'.arg, last'.user)
        /\ (last.op = "_get_conversation_id" /\ last.value = last'.value) =>
                {last.user, last.arg} = {last'.user, last'.arg}]_vars

\* The messages of the conversation in the store that the user has not read.
UnreadMessages(conversation_id, user_id) ==
    {i \in 1..Len(messages) :
        /\ messages[i] # Deleted
        /\ messages[i].conversation_id = conversation_id
        /\ messages[i].recipient_id = user_id
        /\ ~messages[i].is_read}

\* C29: no update of a conversation's unread map is lost to a concurrent
\* one. Once every send and markRead in progress has returned, however their
\* store accesses interleaved, each participant's unread count is the number
\* of messages sent to the participant and not marked read.
ConcurrentUpdatesAllCounted ==
    inflight = EmptyBag =>
        /\ \A i \in 1..Len(messages) : messages[i].conversation_id \in DOMAIN conversations
        /\ \A c \in DOMAIN conversations : \A u \in Users :
            Get(conversations[c].unread_counts, u, 0) = Cardinality(UnreadMessages(c, u))

\* The distance in metres between two latitudes of the meridian.
Apart(latitude1, latitude2) ==
    IF latitude1 >= latitude2 THEN latitude1 - latitude2 ELSE latitude2 - latitude1

\* C22: status resolution returns the first match in the order home, work,
\* school, custom locations in registration order (with that location's
\* name), moving if a speed is given and exceeds 1.4 m/s, unknown; a user
\* without a document resolves to unknown.
ResolutionIsFirstMatch ==
    (last.op = "determine_location_status") =>
        LET u == last.user
            latitude == last.arg[1]
            speed == last.arg[2]
            known == u \in Users
            Near(address, radius) ==
                address # <<>> /\ Apart(latitude, address[1].latitude) <= radius
            inHome == known /\ Near(addresses[u].home_address, HOME_RADIUS_METERS)
            inWork == known /\ Near(addresses[u].work_address, WORK_RADIUS_METERS)
            inSchool == known /\ Near(addresses[u].school_address, SCHOOL_RADIUS_METERS)
            zones == IF known THEN custom_locations[u] ELSE <<>>
            Contains(i) ==
                Apart(latitude, zones[i].latitude) <=
                    (IF zones[i].radius_meters = <<>> THEN 100
                     ELSE zones[i].radius_meters[1])
            first == {i \in DOMAIN zones : Contains(i) /\ \A j \in 1..(i - 1) : ~Contains(j)}
            fast == speed # <<>> /\ speed[1] > 14
            status == last.value.status
            label == last.value.custom_location_name
        IN
        /\ inHome => status = "home"
        /\ (~inHome /\ inWork) => status = "work"
        /\ (~inHome /\ ~inWork /\ inSchool) => status = "school"
        /\ (known /\ ~inHome /\ ~inWork /\ ~inSchool) =>
            /\ \A i \in first : status = "custom" /\ label = zones[i].name
            /\ (first = {} /\ fast) => status = "moving"
            /\ (first = {} /\ ~fast) => status = "unknown"
        /\ status # "custom" => label = None
        /\ ~known => status = "unknown"

\* Alice's fix at 150 m lies within her home, her work place and both her
\* custom locations, and resolved to home.
HomeBeatsOverlappingZones ==
    /\ last.op = "determine_location_status" /\ last.user = Alice
    /\ last.arg = <<150, <<20>>>>
    /\ addresses[Alice].home_address # <<>>
    /\ addresses[Alice].work_address # <<>>
    /\ custom_locations[Alice] = <<Gym, Cafe>>
    /\ last.value = [status |-> "home", custom_location_name |-> None]

\* C23: a completed updateLocation(u) at time t leaves u's snapshot with the
\* resolved status and label and last_updated = t, one more history entry of
\* u with timestamp t than before, no history entry of u older than t minus
\* the retention days, u's entries inside the retention window as they were,
\* and the snapshots and history entries of the other users unchanged.
UpdateLocationWritesSnapshotAndHistory ==
    [][last'.op = "update_location" =>
        LET u == last'.user
            t == clock
            resolved == DetermineLocationStatus(u, last'.arg.latitude,
                                                last'.arg.longitude, last'.arg.speed)
            entry == [user_id |-> u, status |-> resolved.status,
                      custom_location_name |-> resolved.custom_location_name,
                      timestamp |-> t]
            oldest == t - LOCATION_HISTORY_RETENTION_DAYS * TicksPerDay
            all == BagToSet(location_history) \cup BagToSet(location_history')
        IN
        /\ last'.outcome = "ok"
        /\ user_locations'[u] =
            <<[user_id |-> u, status |-> resolved.status,
               custom_location_name |-> resolved.custom_location_name,
               last_updated |-> t]>>
        /\ last'.value.status = resolved.status
        /\ last'.value.last_updated = t
        /\ CopiesIn(entry, location_history') = CopiesIn(entry, location_history) + 1
        /\ \A h \in all \ {entry} :
            CopiesIn(h, location_history') =
                IF h.user_id = u /\ h.timestamp < oldest THEN 0
                ELSE CopiesIn(h, location_history)
        /\ \A v \in Users \ {u} : user_locations'[v] = user_locations[v]]_vars

\* Alice's update at tick 15 is in her snapshot and is her only history
\* entry, and Bob's entry of tick 0, older than the retention window, is
\* still there.
UpdatedPastRetention ==
    /\ last.op = "update_location" /\ last.user = Alice /\ clock = 15
    /\ user_locations[Alice] # <<>> /\ user_locations[Alice][1].last_updated = 15
    /\ \A h \in BagToSet(location_history) : h.user_id = Alice => h.timestamp = 15
    /\ \E h \in BagToSet(location_history) : h.user_id = Bob /\ h.timestamp = 0

\* C24: updateLocation can be retried. A second execution for the same user
\* with the same data, straight after the first, leaves the persisted state
\* as the first left it: the same snapshot status and label, and no further
\* history entry.
RetriedUpdateChangesNothing ==
    [][(/\ last.op = "update_location" /\ last'.op = "update_location"
        /\ last'.user = last.user /\ last'.arg = last.arg) =>
        /\ user_locations'[last.user][1].status = user_locations[last.user][1].status
        /\ user_locations'[last.user][1].custom_location_name =
                user_locations[last.user][1].custom_location_name
        /\ location_history' = location_history]_vars

\* C21: getFriendLocation(viewer, owner) fails with a permission error exactly
\* when no active edge viewer -> owner exists, and with such an edge returns
\* what getCurrentLocation(owner) returns.
FriendLocationNeedsActiveEdge ==
    [][last'.op = "get_friend_location" =>
        /\ last'.outcome # "ok" <=> EdgeLevels(last'.user, last'.arg) = {}
        /\ EdgeLevels(last'.user, last'.arg) # {} =>
                last'.value = CurrentLocation(last'.arg)]_vars

\* The number of friendships documents, of any status, of one ordered pair.
EdgeCount(owner, peer) ==
    LET docs == {d \in BagToSet(friendships) : d.user_id = owner /\ d.friend_id = peer}
        RECURSIVE Sum(_)
        Sum(S) == IF S = {} THEN 0
                  ELSE LET d == CHOOSE x \in S : TRUE
                       IN CopiesIn(d, friendships) + Sum(S \ {d})
    IN Sum(docs)

\* C35: in every reachable state of the friends service there is at most one
\* friendships document, of any status, per ordered (owner, peer) pair.
OneEdgePerOrderedPair ==
    \A owner \in Users, peer \in Users : EdgeCount(owner, peer) <= 1

\* C36: whenever no operation is in progress, after any sequence of sends,
\* reveals, markReads and deletes, each participant's unread count of a
\* conversation is the number of existing messages of the conversation that
\* are addressed to the participant and have is_read false.
UnreadCountIsUnreadMessages ==
    inflight = EmptyBag =>
        \A k \in DOMAIN conversations :
            \A u \in DOMAIN conversations[k].unread_counts :
                conversations[k].unread_counts[u] = Cardinality(UnreadMessages(k, u))

\* C39: blocking is directional for messaging. A block by A of B on a
\* connected pair leaves no active edge A -> B and leaves the edges B -> A as
\* they were; while no active edge A -> B exists, A's sends to B and A's
\* listings of the conversation fail; and an active edge between two users
\* comes into being only when a request between them is accepted.
BlockIsDirectional ==
    [][/\ \A a \in Users, b \in Users :
            (/\ last'.op = "block_user"
             /\ last'.user = a /\ last'.arg = b
             /\ EdgeLevels(a, b) # {})
            => /\ EdgeLevels(a, b)' = {}
               /\ EdgeLevels(b, a)' = EdgeLevels(b, a)
       /\ (/\ last'.op \in {"send_message", "get_conversation_messages"}
           /\ EdgeLevels(last'.user, last'.arg[1]) = {})
          => last'.outcome # "ok"
       /\ \A u \in Users, v \in Users :
            (EdgeLevels(u, v) = {} /\ EdgeLevels(u, v)' # {})
                => last'.op = "accept_friend_request"]_vars

\* C32: a permission error (a reveal or markRead by a user who is not the
\* recipient, a delete by a user who is not the sender, a read of the location
\* of a user who is no friend) leaves the API with status 403, and a
\* validation or policy error with status 400.
PermissionErrorsAreForbidden ==
    /\ (/\ last.op \in {"reveal_messages", "mark_messages_as_read", "delete_message"}
        /\ last.outcome = "permission")
       => MessagesRouteStatus(last) = 403
    /\ (last.op = "get_friend_location" /\ last.outcome = "no_friendship")
       => LocationsRouteStatus(last) = 403
    /\ (/\ last.op \in {"send_message", "get_conversation_messages", "delete_message"}
        /\ last.outcome \notin {"ok", "permission"})
       => MessagesRouteStatus(last) = 400

\* C31: has_more of a listing with limit L is true exactly when the number of
\* messages returned to the caller is L, so a full last page reports has_more
\* true as well.
HasMoreIffFullPage ==
    (last.op = "get_conversation_messages" /\ last.outcome = "ok") =>
        LET body == MessageListResponse(last)
            limit == last.arg[2]
        IN
        /\ body.messages = last.value
        /\ body.total = Len(body.messages)
        /\ body.has_more <=> (Len(body.messages) = limit)

\* A listing has returned a full page that is the last one: the page starts
\* at the oldest message of the store, and has_more is true.
FullLastPage ==
    /\ last.op = "get_conversation_messages"
    /\ last.outcome = "ok"
    /\ Len(last.value) = last.arg[2]
    /\ last.value[1] = 1
    /\ MessageListResponse(last).has_more

\* A listing has returned fewer messages than the limit, and has_more is
\* false.
ShortPage ==
    /\ last.op = "get_conversation_messages"
    /\ last.outcome = "ok"
    /\ 0 < Len(last.value)
    /\ Len(last.value) < last.arg[2]
    /\ ~MessageListResponse(last).has_more

\* The messages of the conversation of viewer and other that are older than
\* the page the listing queried and that the viewer may see: the existing
\* messages of the conversation below the oldest queried index which are not
\* unrevealed messages addressed to the viewer.
OlderVisible(viewer, other, limit, before_message_id) ==
    LET k == GetConversationId(viewer, other)
        start == IF before_message_id # <<>> /\ Exists(messages, before_message_id[1])
                 THEN before_message_id[1] - 1
                 ELSE Len(messages)
        page == QueryMessages(messages, k, start, limit)
        oldest == IF page = <<>> THEN start + 1 ELSE page[Len(page)]
    IN {i \in 1..Len(messages) :
            /\ i < oldest
            /\ Exists(messages, i)
            /\ messages[i].conversation_id = k
            /\ ~(messages[i].recipient_id = viewer /\ ~messages[i].is_visible_to_recipient)}

\* C40: a listing that reports has_more false has left no message of the
\* conversation behind that is older than the queried page and visible to the
\* viewer, also when unrevealed messages were filtered out of the page.
NoMoreMeansNoOlderVisible ==
    (/\ last.op = "get_conversation_messages"
     /\ last.outcome = "ok"
     /\ ~MessageListResponse(last).has_more)
    => OlderVisible(last.user, last.arg[1], last.arg[2], last.arg[3]) = {}

\* C34: the haversine distance is symmetric and zero on identical points:
\* distance(A, B) = distance(B, A) and distance(A, A) = 0 for all points A, B.
DistanceIsSymmetric ==
    last.op = "calculate_distance" =>
        /\ last.value = Haversine(last.arg[3], last.arg[4], last.arg[1], last.arg[2])
        /\ (last.arg[1] = last.arg[3] /\ last.arg[2] = last.arg[4]) => last.value = 0
        /\ last.value >= 0

\* A distance has been calculated between two points of different latitude
\* and longitude, one of them on the equator, and it is not zero.
MeasuredAcrossLatitudes ==
    /\ last.op = "calculate_distance"
    /\ last.arg[1] = 0 /\ last.arg[3] # 0
    /\ last.arg[2] # last.arg[4]
    /\ last.value > 0

\* The requests between the two users, in either direction, that are accepted.
AcceptedBetween(u, v) ==
    {i \in 1..Len(friend_requests) :
        /\ friend_requests[i].status = "accepted"
        /\ {friend_requests[i].from_user_id, friend_requests[i].to_user_id} = {u, v}}

\* C38: however concurrent accepts and rejects of one request interleave, the
\* request is resolved exactly once. Its status, once it is not pending, does
\* not change again; and when no call is in progress the edges created from
\* requests are those of the accepted requests: one edge per direction for
\* each accepted request, none for a rejected one.
RequestResolvedOnce ==
    [][/\ \A i \in 1..Len(friend_requests) :
            friend_requests[i].status # "pending"
                => friend_requests'[i].status = friend_requests[i].status
       /\ inflight' = EmptyBag
            => \A u \in Users, v \in Users :
                    u # v => EdgeCount(u, v)' = Cardinality(AcceptedBetween(u, v))']_vars

\* C37: for every user and address type, two successful updateAddress calls
\* are at least LOCATION_CHANGE_LOCK_DAYS days apart, also when the checks and
\* the writes of two calls of one user interleave: a call that returns with
\* success on an address that is registered finds it changed at least that
\* many days before.
SuccessfulUpdatesAreLockApart ==
    [][\A p \in BagToSet(inflight) :
        (/\ p.op = "update_address"
         /\ inflight' = Return(p)
         /\ last'.op = "update_address" /\ last'.outcome = "ok"
         /\ AddressOf(addresses[p.user], p.address_type) # Null)
        => DaysSinceChange(AddressOf(addresses[p.user], p.address_type), clock)
                >= LOCATION_CHANGE_LOCK_DAYS]_vars

\* C33: a user's custom_locations never holds more than 10 entries, under
\* any interleaving of the user's concurrent add, update and delete requests:
\* no step leaves a longer list in the store, an add that reads a list of 10
\* entries or more writes nothing, and an add answered with the limit error
\* has left the list as it was.
CustomLocationsAtMostTen ==
    [][/\ \A u \in Users : Len(custom_locations'[u]) <= 10
       /\ \A p \in BagToSet(inflight') :
            (/\ p.op = "add_custom_location"
             /\ CopiesIn(p, inflight') > CopiesIn(p, inflight))
            => Len(custom_locations[p.user]) < 10
       /\ (last'.op = "add_custom_location" /\ last'.outcome = "limit")
            => /\ custom_locations' = custom_locations
               /\ Len(custom_locations[last'.user]) >= 10]_vars

\* Two adds have read a list of nine places; one has written its list of ten
\* and the other is about to write its own.
AddsRacingAtTheLimit ==
    /\ Len(custom_locations[Alice]) = 10
    /\ \E p \in BagToSet(inflight) :
            /\ p.op = "add_custom_location"
            /\ p.user = Alice
            /\ Len(p.custom_locations) = 10

\* An add has been refused on a list of ten places.
AddRefusedAtTheLimit ==
    /\ last.op = "add_custom_location"
    /\ last.outcome = "limit"
    /\ Len(custom_locations[Alice]) = 10

====
